---------------------------- MODULE Spec2Model ----------------------------
(***************************************************************************)
(* Model of the version handling of the EPICS environment manager scripts: *)
(* scripts/check_excludes.py (version_to_tup, module_compare, check,       *)
(* module_match and the command line entry point main) and                 *)
(* scripts/get_prerequisites.py (module_key, DependencyResolver,           *)
(* module_version, search_dep_file, recursive_solve and its main).         *)
(*                                                                         *)
(* Python strings are modelled as sequences of one-character strings, so   *)
(* that the regular expressions of the source are computed character by    *)
(* character.  A failed re.match (None) is modelled by the empty tuple; a  *)
(* successful one by the tuple of its groups.                              *)
(***************************************************************************)
EXTENDS Integers, Sequences, FiniteSets, TLC

VARIABLES
    pc,           \* "call" before the operation of the specification ran, "done" after
    version,      \* check_excludes main: args.version
    conditions,   \* check_excludes main: args.condition or []
    epics_base,   \* check_excludes main: args.epics_base
    check_ret,    \* the value check() returned to main
    stdout,       \* the lines main printed
    mm_version,   \* module_match: argument version (a string)
    mm_other,     \* module_match: argument other (a string)
    mm_ret,       \* module_match: returned value
    lhs,          \* module_compare: argument lhs
    rhs,          \* module_compare: argument rhs
    comp,         \* module_compare: argument comp
    mc_ret,       \* module_compare: returned value
    fmt_in,       \* version_to_tup: the numbers and the form the argument is written from
    vt_version,   \* version_to_tup: argument version
    vt_ret,       \* version_to_tup: returned value
    arch_default, \* the file <base>/configure/default.<arch>.dep: NoFile or its lines
    epics_default,\* the file <base>/configure/default.dep: NoFile or its lines
    tree,         \* EPICS_MODULES_PATH: module name -> its version directories, as listed
    mv_module,    \* module_version: argument module
    mv_comp,      \* module_version: argument comp_version
    mv_ret,       \* module_version: returned value
    name,         \* get_prerequisites main: args.name
    ud,           \* get_prerequisites main: args.user_dependency
    files,        \* get_prerequisites main: files, the d, template and substitution files
    recursive,    \* get_prerequisites main: args.recursive
    dependencies, \* DependencyResolver._dependencies
    self_matches, \* DependencyResolver._matches
    log,          \* the (module, version) pairs of the 'Checking against' log lines
    stack,        \* the frames of the recursive_solve calls in progress
    todo,         \* main: the dependencies the for loop has still to solve
    deps,         \* main: deps
    rs_call,      \* the arguments of a recursive_solve call made on its own
    fd_modules,   \* format_dep: argument modules, in the order of iteration
    fd_ret,       \* format_dep: returned text
    includedir,   \* ExpandDBD._includedir: args.include_dir
    dbdtree,      \* the files of the working directory: name -> lines
    dbd_files,    \* expand_dbd main: args.files
    dbd_k,        \* expand_dbd main: the position of the for loop in args.files
    added_files,  \* ExpandDBD._added_files
    outputfile,   \* the lines written to ExpandDBD._outputfile, or NoOutput
    dbd_stack     \* the frames of the add_dbd calls in progress

vars == <<pc, version, conditions, epics_base, check_ret, stdout,
          mm_version, mm_other, mm_ret, lhs, rhs, comp, mc_ret,
          fmt_in, vt_version, vt_ret,
          arch_default, epics_default, tree, mv_module, mv_comp, mv_ret,
          name, ud, files, recursive, dependencies, self_matches, log,
          stack, todo, deps, rs_call, fd_modules, fd_ret,
          includedir, dbdtree, dbd_files, dbd_k, added_files, outputfile, dbd_stack>>

checkVars == <<version, conditions, epics_base, check_ret, stdout>>
matchVars == <<mm_version, mm_other, mm_ret>>
compareVars == <<lhs, rhs, comp, mc_ret>>
parseVars == <<fmt_in, vt_version, vt_ret>>
worldVars == <<arch_default, epics_default, tree>>
versionVars == <<mv_module, mv_comp, mv_ret>>
argVars == <<name, ud, files, recursive>>
resolverVars == <<dependencies, self_matches, log>>
solveVars == <<stack, todo, deps, rs_call>>
prereqVars == <<worldVars, versionVars, argVars, resolverVars, solveVars>>
formatVars == <<fd_modules, fd_ret>>
expandVars == <<includedir, dbdtree, dbd_files, dbd_k, added_files, outputfile, dbd_stack>>
toolVars == <<formatVars, expandVars>>

(***************************************************************************)
(* Bounds of the model.                                                    *)
(***************************************************************************)
\* version components of the enumerated inputs range over 0..MaxNum
MaxNum == 2
\* longest list of conditions handed to check
MaxConds == 2

(***************************************************************************)
(* Characters and decimal numbers.                                         *)
(***************************************************************************)
Digits == <<"0", "1", "2", "3", "4", "5", "6", "7", "8", "9">>

IsDigit(c) == \E d \in 1..10 : Digits[d] = c

DigitVal(c) == (CHOOSE d \in 1..10 : Digits[d] = c) - 1

\* re.match returned None
None == <<>>

\* Python int() of a string of decimal digits
RECURSIVE int(_)
int(s) ==
    IF s = <<>> THEN 0
    ELSE 10 * int(SubSeq(s, 1, Len(s) - 1)) + DigitVal(s[Len(s)])

\* the decimal text of a non-negative integer, as the command line carries it
RECURSIVE str(_)
str(n) ==
    IF n < 10 THEN <<Digits[n + 1]>>
    ELSE str(n \div 10) \o <<Digits[(n % 10) + 1]>>

\* [0-9]* matched greedily at position i of s: the position after the match
RECURSIVE DigitsEnd(_, _)
DigitsEnd(s, i) ==
    IF i <= Len(s) /\ IsDigit(s[i]) THEN DigitsEnd(s, i + 1) ELSE i

\* the group (0|[1-9][0-9]*) matched at position i of s: the position after
\* the match, or 0 when it does not match.  What follows the group in every
\* pattern of the source is \. or an optional group, so the greedy match is
\* the only one that can succeed.
NumEnd(s, i) ==
    IF i > Len(s) \/ ~IsDigit(s[i]) THEN 0
    ELSE IF s[i] = "0" THEN i + 1
    ELSE DigitsEnd(s, i + 1)

\* the group (\+?) matched at position i of s
PlusAt(s, i) == IF i <= Len(s) /\ s[i] = "+" THEN <<"+">> ELSE <<>>

\* \. matched at position i of s
DotAt(s, i) == i >= 1 /\ i <= Len(s) /\ s[i] = "."

(***************************************************************************)
(* The regular expressions of check_excludes.py.                           *)
(***************************************************************************)
\* re.match(r'(0|[1-9][0-9]*)\.(0|[1-9][0-9]*)\.(0|[1-9][0-9]*)(\+?)', s)
ReMajorMinorPatch(s) ==
    LET e1 == NumEnd(s, 1)
        e2 == IF e1 # 0 /\ DotAt(s, e1) THEN NumEnd(s, e1 + 1) ELSE 0
        e3 == IF e2 # 0 /\ DotAt(s, e2) THEN NumEnd(s, e2 + 1) ELSE 0
    IN  IF e3 = 0 THEN None
        ELSE <<SubSeq(s, 1, e1 - 1), SubSeq(s, e1 + 1, e2 - 1),
               SubSeq(s, e2 + 1, e3 - 1), PlusAt(s, e3)>>

\* re.match(r'(0|[1-9][0-9]*)\.(0|[1-9][0-9]*)(\+?)', s)
ReMajorMinor(s) ==
    LET e1 == NumEnd(s, 1)
        e2 == IF e1 # 0 /\ DotAt(s, e1) THEN NumEnd(s, e1 + 1) ELSE 0
    IN  IF e2 = 0 THEN None
        ELSE <<SubSeq(s, 1, e1 - 1), SubSeq(s, e1 + 1, e2 - 1), PlusAt(s, e2)>>

\* re.match(r'(0|[1-9][0-9]*)(\+?)', s)
ReMajor(s) ==
    LET e1 == NumEnd(s, 1)
    IN  IF e1 = 0 THEN None
        ELSE <<SubSeq(s, 1, e1 - 1), PlusAt(s, e1)>>

\* re.match(r'(0|[1-9][0-9]*)\.(0|[1-9][0-9]*)\.(0|[1-9][0-9]*)', s)
ReVersion(s) ==
    LET e1 == NumEnd(s, 1)
        e2 == IF e1 # 0 /\ DotAt(s, e1) THEN NumEnd(s, e1 + 1) ELSE 0
        e3 == IF e2 # 0 /\ DotAt(s, e2) THEN NumEnd(s, e2 + 1) ELSE 0
    IN  IF e3 = 0 THEN None
        ELSE <<SubSeq(s, 1, e1 - 1), SubSeq(s, e1 + 1, e2 - 1),
               SubSeq(s, e2 + 1, e3 - 1)>>

\* [\d\.]* matched greedily at position i of s: the position after the match
RECURSIVE DigitsDotsEnd(_, _)
DigitsDotsEnd(s, i) ==
    IF i <= Len(s) /\ (IsDigit(s[i]) \/ s[i] = ".") THEN DigitsDotsEnd(s, i + 1) ELSE i

\* re.match(r'^([<>]=?|=)([\d\.]*)(\+?)$', s).  The strings of the model hold
\* no newline, so $ is the end of the string.
ReCondition(s) ==
    LET opLen == IF Len(s) >= 1 /\ s[1] \in {"<", ">"}
                 THEN (IF Len(s) >= 2 /\ s[2] = "=" THEN 2 ELSE 1)
                 ELSE IF Len(s) >= 1 /\ s[1] = "=" THEN 1 ELSE 0
        bodyEnd == DigitsDotsEnd(s, opLen + 1)
        plus == PlusAt(s, bodyEnd)
    IN  IF opLen = 0 \/ bodyEnd + Len(plus) # Len(s) + 1 THEN None
        ELSE <<SubSeq(s, 1, opLen), SubSeq(s, opLen + 1, bodyEnd - 1), plus>>

(***************************************************************************)
(* EpicsModule, module_compare, version_to_tup, check, module_match.       *)
(***************************************************************************)
EpicsModule(major, minor, patch, exact) ==
    [major |-> major, minor |-> minor, patch |-> patch, exact |-> exact]

\* eval('a {} b'.format(op)) for the one-character operators < and >
Eval(a, op, b) == IF op = "<" THEN a < b ELSE a > b

module_compare_independent(l, r, c) ==
    IF c = <<"<">> \/ c = <<">">> THEN
        \/ Eval(l.major, c[1], r.major)
        \/ Eval(l.minor, c[1], r.minor)
        \/ Eval(l.patch, c[1], r.patch)
    ELSE IF c = <<"<", "=">> \/ c = <<">", "=">> THEN
        \/ Eval(l.major, c[1], r.major)
        \/ Eval(l.minor, c[1], r.minor)
        \/ Eval(l.patch, c[1], r.patch)
        \/ (l.major = r.major /\ l.minor = r.minor /\ l.patch = r.patch)
    ELSE IF c = <<"=">> THEN
        l.major = r.major /\ l.minor = r.minor /\ l.patch = r.patch
    ELSE FALSE

\* A comparator outside the five makes the function return None, which the
\* caller's if treats as false.
module_compare(l, r, c) ==
    IF c = <<"<">> \/ c = <<">">> THEN
        \/ Eval(l.major, c[1], r.major)
        \/ (l.major = r.major /\ Eval(l.minor, c[1], r.minor))
        \/ (l.major = r.major /\ l.minor = r.minor /\ Eval(l.patch, c[1], r.patch))
    ELSE IF c = <<"<", "=">> \/ c = <<">", "=">> THEN
        \/ Eval(l.major, c[1], r.major)
        \/ (l.major = r.major /\ Eval(l.minor, c[1], r.minor))
        \/ (l.major = r.major /\ l.minor = r.minor /\ Eval(l.patch, c[1], r.patch))
        \/ (l.major = r.major /\ l.minor = r.minor /\ l.patch = r.patch)
    ELSE IF c = <<"=">> THEN
        l.major = r.major /\ l.minor = r.minor /\ l.patch = r.patch
    ELSE FALSE

version_to_tup_major_first(s) ==
    LET m3 == ReMajorMinorPatch(s)
        m2 == ReMajorMinor(s)
        m1 == ReMajor(s)
    IN  IF m1 # None
        THEN EpicsModule(int(m1[1]), 0, 0, ~(m1[2] = <<"+">>))
        ELSE IF m2 # None
        THEN EpicsModule(int(m2[1]), int(m2[2]), 0, ~(m2[3] = <<"+">>))
        ELSE IF m3 # None
        THEN EpicsModule(int(m3[1]), int(m3[2]), int(m3[3]), ~(m3[4] = <<"+">>))
        ELSE EpicsModule(0, 0, 0, FALSE)

version_to_tup(s) ==
    LET m3 == ReMajorMinorPatch(s)
        m2 == ReMajorMinor(s)
        m1 == ReMajor(s)
    IN  IF m3 # None
        THEN EpicsModule(int(m3[1]), int(m3[2]), int(m3[3]), ~(m3[4] = <<"+">>))
        ELSE IF m2 # None
        THEN EpicsModule(int(m2[1]), int(m2[2]), 0, ~(m2[3] = <<"+">>))
        ELSE IF m1 # None
        THEN EpicsModule(int(m1[1]), 0, 0, ~(m1[2] = <<"+">>))
        ELSE EpicsModule(0, 0, 0, FALSE)

\* the for loop of check from the i-th condition on, with its returns
RECURSIVE check_loop_keep_operator(_, _, _)
check_loop_keep_operator(v, conds, i) ==
    IF i > Len(conds) THEN FALSE
    ELSE LET matches == ReCondition(conds[i])
         IN  IF matches = None THEN FALSE
             ELSE IF module_compare(version_to_tup(v), version_to_tup(matches[2]),
                                    matches[1])
                  THEN TRUE
                  ELSE check_loop_keep_operator(v, conds, i + 1)

RECURSIVE check_loop_first_only(_, _, _)
check_loop_first_only(v, conds, i) ==
    IF i > Len(conds) THEN FALSE
    ELSE LET matches == ReCondition(conds[i])
         IN  IF matches = None THEN FALSE
             ELSE LET c == IF matches[3] = <<"+">> THEN <<">", "=">> ELSE matches[1]
                  IN  module_compare(version_to_tup(v), version_to_tup(matches[2]), c)

RECURSIVE check_loop(_, _, _)
check_loop(v, conds, i) ==
    IF i > Len(conds) THEN FALSE
    ELSE LET matches == ReCondition(conds[i])
         IN  IF matches = None THEN FALSE
             ELSE LET c == IF matches[3] = <<"+">> THEN <<">", "=">> ELSE matches[1]
                  IN  IF module_compare(version_to_tup(v), version_to_tup(matches[2]), c)
                      THEN TRUE
                      ELSE check_loop(v, conds, i + 1)

check(v, conds) ==
    IF ReVersion(v) = None THEN FALSE ELSE check_loop(v, conds, 1)

module_match_no_wildcard(ver, oth) ==
    \/ /\ ver.exact
       /\ \/ (ver.minor = 0 /\ oth.major = ver.major)
          \/ (ver.patch = 0 /\ oth.major = ver.major /\ oth.minor = ver.minor)
          \/ (ver.major = ver.major /\ oth.minor = ver.minor /\ oth.patch = ver.patch)
    \/ /\ ~ver.exact
       /\ \/ (ver.minor = 0 /\ oth.major >= ver.major)
          \/ (ver.patch = 0 /\ oth.major = oth.major /\ oth.minor >= ver.minor)
          \/ (oth.major = ver.major /\ oth.minor = ver.minor /\ oth.patch >= ver.patch)

module_match_no_minor_pin(ver, oth) ==
    \/ ver.major = 0
    \/ /\ ver.exact
       /\ \/ (ver.minor = 0 /\ oth.major = ver.major)
          \/ (ver.major = ver.major /\ oth.minor = ver.minor /\ oth.patch = ver.patch)
    \/ /\ ~ver.exact
       /\ \/ (ver.minor = 0 /\ oth.major >= ver.major)
          \/ (ver.patch = 0 /\ oth.major = oth.major /\ oth.minor >= ver.minor)
          \/ (oth.major = ver.major /\ oth.minor = ver.minor /\ oth.patch >= ver.patch)

module_match_strict_patch(ver, oth) ==
    \/ ver.major = 0
    \/ /\ ver.exact
       /\ \/ (ver.minor = 0 /\ oth.major = ver.major)
          \/ (ver.patch = 0 /\ oth.major = ver.major /\ oth.minor = ver.minor)
          \/ (ver.major = ver.major /\ oth.minor = ver.minor /\ oth.patch = ver.patch)
    \/ /\ ~ver.exact
       /\ \/ (ver.minor = 0 /\ oth.major >= ver.major)
          \/ (ver.patch = 0 /\ oth.major = oth.major /\ oth.minor >= ver.minor)
          \/ (oth.major = ver.major /\ oth.minor = ver.minor /\ oth.patch > ver.patch)

\* module_match on the two named tuples (lines 98-108 as written, with
\* ver.major == ver.major and oth.major == oth.major)
module_match_tup(ver, oth) ==
    \/ ver.major = 0
    \/ /\ ver.exact
       /\ \/ (ver.minor = 0 /\ oth.major = ver.major)
          \/ (ver.patch = 0 /\ oth.major = ver.major /\ oth.minor = ver.minor)
          \/ (ver.major = ver.major /\ oth.minor = ver.minor /\ oth.patch = ver.patch)
    \/ /\ ~ver.exact
       /\ \/ (ver.minor = 0 /\ oth.major >= ver.major)
          \/ (ver.patch = 0 /\ oth.major = oth.major /\ oth.minor >= ver.minor)
          \/ (oth.major = ver.major /\ oth.minor = ver.minor /\ oth.patch >= ver.patch)

\* module_match called with two strings
module_match(v, other) == module_match_tup(version_to_tup(v), version_to_tup(other))

(***************************************************************************)
(* Inputs.                                                                 *)
(***************************************************************************)
Nums == 0..MaxNum

Fmt1(M) == str(M)
Fmt2(M, N) == str(M) \o <<".">> \o str(N)
Fmt3(M, N, P) == str(M) \o <<".">> \o str(N) \o <<".">> \o str(P)

\* MAJOR.MINOR.PATCH strings
FullVersions ==
    {Fmt3(M, N, P) : M \in Nums, N \in Nums, P \in Nums}
    \cup {Fmt3(4, 0, 0), Fmt3(3, 0, 1), Fmt3(1, 10, 0), Fmt3(1, 5, 0),
          Fmt3(0, 9, 0), Fmt3(1, 3, 0)}

\* MAJOR[.MINOR[.PATCH]] strings
PartialVersions ==
    {Fmt1(M) : M \in Nums} \cup {Fmt2(M, N) : M \in Nums, N \in Nums}
    \cup {Fmt2(3, 1), Fmt2(1, 9), Fmt2(1, 10)}

\* strings that are no version
Malformed == {<<>>, <<"x">>, <<".", "1">>, <<"0", "1", ".", "2">>, <<"1", ".", ".", "2">>}

Comparators == {<<"<">>, <<">">>, <<"<", "=">>, <<">", "=">>, <<"=">>}

\* the right-hand sides of conditions: only digits and dots
RightHandSides ==
    PartialVersions \cup {Fmt3(M, N, P) : M \in Nums, N \in Nums, P \in Nums}
    \cup {<<>>, <<"1", ".", ".", "2">>}

WellFormedConditions ==
    {c \o r \o p : c \in Comparators, r \in RightHandSides, p \in {<<>>, <<"+">>}}

UnparsableConditions ==
    {Fmt2(1, 0), <<"<", "1", "x">>, <<"=", "=", "1">>, <<"<", "1", "+", "+">>, <<>>}

\* the conditions of the lists of more than one condition
ListConditions ==
    {<<"<">> \o Fmt1(1), <<">", "=">> \o Fmt3(1, 0, 1), <<"=">> \o Fmt2(1, 1),
     <<"<">> \o Fmt2(1, 1) \o <<"+">>, <<">">> \o Fmt2(1, 1)}
    \cup {Fmt2(1, 0), <<"<", "1", "x">>}

RECURSIVE ListsUpTo(_, _)
ListsUpTo(S, n) ==
    IF n = 0 THEN {<<>>}
    ELSE LET shorter == ListsUpTo(S, n - 1)
         IN  shorter \cup {Append(l, x) : l \in {k \in shorter : Len(k) = n - 1}, x \in S}

ConditionLists ==
    {<<c>> : c \in WellFormedConditions \cup UnparsableConditions}
    \cup ListsUpTo(ListConditions, MaxConds)

VersionArgs == FullVersions \cup {Fmt2(1, 2), <<"x">>, <<>>}

RequiredArgs ==
    {v \o p : v \in FullVersions \cup PartialVersions \cup {Fmt2(1, 2)},
              p \in {<<>>, <<"+">>}}
    \cup Malformed

CandidateArgs == FullVersions \cup {Fmt3(1, 2, 0), Fmt3(2, 0, 0)}

EpicsModules ==
    {EpicsModule(M, N, P, e) : M \in Nums, N \in Nums, P \in Nums, e \in BOOLEAN}
    \cup {EpicsModule(1, 9, 9, TRUE)}

(***************************************************************************)
(* check_excludes.py run from the command line.                            *)
(***************************************************************************)
ParseIdle ==
    /\ fmt_in = <<>>
    /\ vt_version = <<>>
    /\ vt_ret = <<>>

WorldIdle ==
    /\ arch_default = <<>>
    /\ epics_default = <<>>
    /\ tree = <<>>

VersionIdle ==
    /\ mv_module = <<>>
    /\ mv_comp = <<>>
    /\ mv_ret = <<>>

ArgsIdle ==
    /\ name = <<>>
    /\ ud = <<>>
    /\ files = <<>>
    /\ recursive = FALSE

ResolverIdle ==
    /\ dependencies = {}
    /\ self_matches = <<>>
    /\ log = <<>>

SolveIdle ==
    /\ stack = <<>>
    /\ todo = {}
    /\ deps = {}
    /\ rs_call = <<>>

PrereqIdle == WorldIdle /\ VersionIdle /\ ArgsIdle /\ ResolverIdle /\ SolveIdle

FormatIdle ==
    /\ fd_modules = <<>>
    /\ fd_ret = <<>>

ExpandIdle ==
    /\ includedir = <<>>
    /\ dbdtree = <<>>
    /\ dbd_files = <<>>
    /\ dbd_k = 0
    /\ added_files = <<>>
    /\ outputfile = <<>>
    /\ dbd_stack = <<>>

ToolIdle == FormatIdle /\ ExpandIdle

CheckIdle ==
    /\ version = <<>>
    /\ conditions = <<>>
    /\ epics_base = <<>>
    /\ check_ret = FALSE
    /\ stdout = <<>>

MatchIdle ==
    /\ mm_version = <<>>
    /\ mm_other = <<>>
    /\ mm_ret = FALSE

CompareIdle ==
    /\ lhs = EpicsModule(0, 0, 0, FALSE)
    /\ rhs = EpicsModule(0, 0, 0, FALSE)
    /\ comp = <<"=">>
    /\ mc_ret = FALSE

InitCheck ==
    /\ pc = "call"
    /\ version \in VersionArgs
    /\ conditions \in ConditionLists
    /\ epics_base \in {Fmt2(3, 14), Fmt2(3, 15)}
    /\ check_ret = FALSE
    /\ stdout = <<>>
    /\ MatchIdle
    /\ CompareIdle
    /\ ParseIdle
    /\ PrereqIdle
    /\ ToolIdle

\* main: print the EPICS base version if check(version, conditions)
main ==
    /\ pc = "call"
    /\ pc' = "done"
    /\ check_ret' = check(version, conditions)
    /\ stdout' = IF check_ret' THEN <<epics_base>> ELSE <<>>
    /\ UNCHANGED <<version, conditions, epics_base>>
    /\ UNCHANGED matchVars
    /\ UNCHANGED compareVars
    /\ UNCHANGED parseVars
    /\ UNCHANGED prereqVars
    /\ UNCHANGED toolVars

SpecCheck == InitCheck /\ [][main]_vars

(***************************************************************************)
(* module_match called with two version strings.                           *)
(***************************************************************************)
InitMatch ==
    /\ pc = "call"
    /\ mm_version \in RequiredArgs
    /\ mm_other \in CandidateArgs
    /\ mm_ret = FALSE
    /\ CheckIdle
    /\ CompareIdle
    /\ ParseIdle
    /\ PrereqIdle
    /\ ToolIdle

CallModuleMatch ==
    /\ pc = "call"
    /\ pc' = "done"
    /\ mm_ret' = module_match(mm_version, mm_other)
    /\ UNCHANGED <<mm_version, mm_other>>
    /\ UNCHANGED checkVars
    /\ UNCHANGED compareVars
    /\ UNCHANGED parseVars
    /\ UNCHANGED prereqVars
    /\ UNCHANGED toolVars

SpecMatch == InitMatch /\ [][CallModuleMatch]_vars

(***************************************************************************)
(* module_compare called with two named tuples and a comparator.           *)
(***************************************************************************)
InitCompare ==
    /\ pc = "call"
    /\ lhs \in EpicsModules
    /\ rhs \in EpicsModules
    /\ comp \in Comparators
    /\ mc_ret = FALSE
    /\ CheckIdle
    /\ MatchIdle
    /\ ParseIdle
    /\ PrereqIdle
    /\ ToolIdle

CallModuleCompare ==
    /\ pc = "call"
    /\ pc' = "done"
    /\ mc_ret' = module_compare(lhs, rhs, comp)
    /\ UNCHANGED <<lhs, rhs, comp>>
    /\ UNCHANGED checkVars
    /\ UNCHANGED matchVars
    /\ UNCHANGED parseVars
    /\ UNCHANGED prereqVars
    /\ UNCHANGED toolVars

SpecCompare == InitCompare /\ [][CallModuleCompare]_vars

(***************************************************************************)
(* The three entry points of check_excludes.py.                            *)
(***************************************************************************)
Init == InitCheck \/ InitMatch \/ InitCompare

Next == main \/ CallModuleMatch \/ CallModuleCompare

Spec == Init /\ [][Next]_vars

(***************************************************************************)
(* The orders and the condition grammar the properties are stated with.    *)
(***************************************************************************)
Triple(m) == <<m.major, m.minor, m.patch>>

\* the lexicographic order on triples
LexLess(a, b) == \E i \in 1..3 : a[i] < b[i] /\ \A j \in 1..(i - 1) : a[j] = b[j]

LexHolds(c, a, b) ==
    CASE c = <<"<">> -> LexLess(a, b)
      [] c = <<">">> -> LexLess(b, a)
      [] c = <<"<", "=">> -> LexLess(a, b) \/ a = b
      [] c = <<">", "=">> -> LexLess(b, a) \/ a = b
      [] c = <<"=">> -> a = b

\* the comparator a condition text starts with, <<>> when it starts with none
OpOf(c) ==
    IF Len(c) >= 2 /\ SubSeq(c, 1, 2) \in Comparators THEN SubSeq(c, 1, 2)
    ELSE IF Len(c) >= 1 /\ SubSeq(c, 1, 1) \in Comparators THEN SubSeq(c, 1, 1)
    ELSE <<>>

HasPlus(c) == Len(c) > Len(OpOf(c)) /\ c[Len(c)] = "+"

\* the text between the comparator and the trailing +
Body(c) == SubSeq(c, Len(OpOf(c)) + 1, IF HasPlus(c) THEN Len(c) - 1 ELSE Len(c))

WellFormed(c) ==
    /\ OpOf(c) # <<>>
    /\ \A i \in 1..Len(Body(c)) : Body(c)[i] \in {Digits[d] : d \in 1..10} \cup {"."}

\* the version satisfies the well-formed condition
Satisfied(v, c) ==
    LexHolds(IF HasPlus(c) THEN <<">", "=">> ELSE OpOf(c),
             Triple(version_to_tup(v)), Triple(version_to_tup(Body(c))))

\* v is exactly the text MAJOR.MINOR.PATCH of three decimal numbers
ValidVersion(v) ==
    LET t == version_to_tup(v) IN v = Fmt3(t.major, t.minor, t.patch)

mmVer == version_to_tup(mm_version)
mmOth == version_to_tup(mm_other)

(***************************************************************************)
(* C1.  module_match with an exact required spec of major >= 1 is true iff *)
(* the candidate agrees with it on exactly the specified components: major *)
(* when minor = 0 and patch = 0, major and minor when patch = 0, otherwise *)
(* major, minor and patch.  The code does not do this.                     *)
(***************************************************************************)
AgreesOnSpecified(ver, oth) ==
    IF ver.minor = 0 /\ ver.patch = 0 THEN oth.major = ver.major
    ELSE IF ver.patch = 0 THEN oth.major = ver.major /\ oth.minor = ver.minor
    ELSE oth.major = ver.major /\ oth.minor = ver.minor /\ oth.patch = ver.patch

C1_ExactAgreesOnSpecified ==
    (pc = "done" /\ mmVer.exact /\ mmVer.major >= 1)
        => (mm_ret <=> AgreesOnSpecified(mmVer, mmOth))

(***************************************************************************)
(* C2.  module_match with a non-exact required spec of major >= 1 never    *)
(* matches a candidate of lower major; 1.2+ matches 1.5.0 and does not     *)
(* match 0.9.0.  The code does not do this.                                *)
(***************************************************************************)
C2_OpenRangeNeverLowerMajor ==
    (pc = "done" /\ ~mmVer.exact /\ mmVer.major >= 1)
        => /\ mmOth.major < mmVer.major => ~mm_ret
           /\ (mm_version = Fmt2(1, 2) \o <<"+">> /\ mm_other = Fmt3(1, 5, 0)) => mm_ret
           /\ (mm_version = Fmt2(1, 2) \o <<"+">> /\ mm_other = Fmt3(0, 9, 0)) => ~mm_ret

(***************************************************************************)
(* C3.  As claimed: a non-exact required spec matches every candidate that *)
(* is greater than or equal to it in the (major, minor, patch) ordering,   *)
(* candidates of a higher major included.                                  *)
(***************************************************************************)
C3_OpenRangeMatchesEveryLater ==
    (pc = "done" /\ ~mmVer.exact
        /\ (LexLess(Triple(mmVer), Triple(mmOth)) \/ Triple(mmVer) = Triple(mmOth)))
        => mm_ret

\* the candidate agrees with the required spec on the components before the
\* last one the required spec specifies
AgreesBeforeLast(ver, oth) ==
    \/ (ver.minor = 0 /\ ver.patch = 0)
    \/ (ver.patch = 0 /\ oth.major = ver.major)
    \/ (oth.major = ver.major /\ oth.minor = ver.minor)

(***************************************************************************)
(* C3, amended.  A non-exact required spec matches every candidate that is *)
(* greater than or equal to it in the (major, minor, patch) ordering and   *)
(* agrees with it on the components before the last one it specifies       *)
(* (none for M+, major for M.N+, major and minor for M.N.P+); a candidate  *)
(* of a higher major need not match: 1.2+ does not match 2.0.0.            *)
(***************************************************************************)
C3_OpenRangeMatchesLaterOnLastComponent ==
    pc = "done" =>
        /\ (/\ ~mmVer.exact
            /\ (LexLess(Triple(mmVer), Triple(mmOth)) \/ Triple(mmVer) = Triple(mmOth))
            /\ AgreesBeforeLast(mmVer, mmOth)) => mm_ret
        /\ (mm_version = Fmt2(1, 2) \o <<"+">> /\ mm_other = Fmt3(2, 0, 0)) => ~mm_ret

C3_Witness ==
    /\ pc = "done"
    /\ ~mmVer.exact /\ mmVer.major >= 1 /\ mmVer.minor >= 1 /\ mmVer.patch >= 1
    /\ mmOth.major = mmVer.major /\ mmOth.minor = mmVer.minor
    /\ mmOth.patch > mmVer.patch
    /\ mm_ret

(***************************************************************************)
(* C4.  Wildcard: whenever the required spec has major = 0 (the zero spec  *)
(* of an empty or unparsable string included), module_match is true for    *)
(* every candidate, whatever the required minor, patch and exact flag.     *)
(***************************************************************************)
C4_MajorZeroMatchesAll ==
    (pc = "done" /\ mmVer.major = 0) => mm_ret

C4_Witness ==
    /\ pc = "done"
    /\ mmVer.major = 0 /\ mmVer.exact /\ mmVer.minor = 1 /\ mmVer.patch = 2
    /\ mmOth.major = 2 /\ mmOth.minor = 0
    /\ mm_ret

(***************************************************************************)
(* C5.  Pinned major.minor: for an exact required spec M.N with M >= 1 and *)
(* N >= 1 and no patch, every candidate M.N.p matches and no candidate     *)
(* M.N'.p with N' different from N matches.                                *)
(***************************************************************************)
C5_PinnedMajorMinor ==
    (/\ pc = "done"
     /\ mmVer.exact /\ mmVer.major >= 1 /\ mmVer.minor >= 1 /\ mmVer.patch = 0
     /\ mmOth.major = mmVer.major)
        => (mm_ret <=> mmOth.minor = mmVer.minor)

C5_Witness ==
    /\ pc = "done"
    /\ mm_version = Fmt2(1, 2)
    /\ mm_other = Fmt3(1, 2, 1)
    /\ mm_ret

(***************************************************************************)
(* C6.  module_compare agrees with the lexicographic order on (major,      *)
(* minor, patch) for each of <, >, <=, >=, = and all pairs of specs: the   *)
(* order is transitive and total, a higher major wins whatever minor and   *)
(* patch are (2.0.0 > 1.9.9), and the exact flag never changes the result. *)
(***************************************************************************)
FlipExact(m) == [m EXCEPT !.exact = ~@]

C6_CompareIsLexicographic ==
    pc = "done" =>
        /\ mc_ret <=> LexHolds(comp, Triple(lhs), Triple(rhs))
        /\ \A m \in {x \in EpicsModules : x.exact} :
              (mc_ret /\ module_compare(rhs, m, comp)) => module_compare(lhs, m, comp)
        /\ Cardinality({c \in {<<"<">>, <<"=">>, <<">">>} : module_compare(lhs, rhs, c)}) = 1
        /\ lhs.major > rhs.major => module_compare(lhs, rhs, <<">">>)
        /\ module_compare(EpicsModule(2, 0, 0, TRUE), EpicsModule(1, 9, 9, TRUE), <<">">>)
        /\ mc_ret <=> module_compare(FlipExact(lhs), rhs, comp)
        /\ mc_ret <=> module_compare(lhs, FlipExact(rhs), comp)

C6_Witness ==
    /\ pc = "done"
    /\ lhs = EpicsModule(2, 0, 0, TRUE)
    /\ rhs = EpicsModule(1, 9, 9, TRUE)
    /\ comp = <<">">>
    /\ mc_ret

(***************************************************************************)
(* C7.  check with a valid MAJOR.MINOR.PATCH version and a list of         *)
(* well-formed conditions is true iff at least one condition of the list   *)
(* is satisfied by the version; with an empty list it is false.            *)
(***************************************************************************)
C7_CheckIsAnyCondition ==
    (/\ pc = "done"
     /\ ValidVersion(version)
     /\ \A i \in 1..Len(conditions) : WellFormed(conditions[i]))
        => /\ check_ret <=> \E i \in 1..Len(conditions) : Satisfied(version, conditions[i])
           /\ conditions = <<>> => ~check_ret

C7_Witness ==
    /\ pc = "done"
    /\ ValidVersion(version)
    /\ Len(conditions) = 2
    /\ WellFormed(conditions[1]) /\ ~Satisfied(version, conditions[1])
    /\ WellFormed(conditions[2]) /\ Satisfied(version, conditions[2])
    /\ check_ret

(***************************************************************************)
(* C8.  An unparsable condition is false for that condition only: the      *)
(* remaining conditions are still evaluated, so an unparsable condition    *)
(* followed by a satisfied well-formed one yields true.  The code returns  *)
(* false at the unparsable condition.                                      *)
(***************************************************************************)
C8_UnparsableConditionIsSkipped ==
    (/\ pc = "done"
     /\ ValidVersion(version)
     /\ Len(conditions) = 2
     /\ ~WellFormed(conditions[1])
     /\ WellFormed(conditions[2]) /\ Satisfied(version, conditions[2]))
        => check_ret

(***************************************************************************)
(* C9.  As claimed: version 4.0.0 against the single condition <3.1 yields *)
(* true, as 3.0.1 against <3.1 does.                                       *)
(***************************************************************************)
C9_HigherMajorSatisfiesLess ==
    (pc = "done" /\ conditions = << <<"<">> \o Fmt2(3, 1) >>)
        => /\ version = Fmt3(4, 0, 0) => check_ret
           /\ version = Fmt3(3, 0, 1) => check_ret

(***************************************************************************)
(* C9, amended.  Version 4.0.0 against the single condition <3.1 yields    *)
(* false (the higher major alone decides against <), while 3.0.1 against   *)
(* <3.1 yields true.                                                       *)
(***************************************************************************)
C9_HigherMajorFailsLess ==
    (pc = "done" /\ conditions = << <<"<">> \o Fmt2(3, 1) >>)
        => /\ version = Fmt3(4, 0, 0) => ~check_ret
           /\ version = Fmt3(3, 0, 1) => check_ret

C9_Witness ==
    /\ pc = "done"
    /\ conditions = << <<"<">> \o Fmt2(3, 1) >>
    /\ version = Fmt3(4, 0, 0)
    /\ ~check_ret
    /\ stdout = <<>>

(***************************************************************************)
(* C10.  A condition whose text ends with + is evaluated with >= whatever  *)
(* comparator was written: check(v, [op r +]) equals check(v, [>= r]).     *)
(***************************************************************************)
C10_PlusForcesGreaterEqual ==
    (/\ pc = "done"
     /\ Len(conditions) = 1
     /\ WellFormed(conditions[1])
     /\ HasPlus(conditions[1]))
        => (check_ret <=> check(version, << <<">", "=">> \o Body(conditions[1]) >>))

C10_Witness ==
    /\ pc = "done"
    /\ conditions = << <<"<">> \o Fmt2(1, 1) \o <<"+">> >>
    /\ version = Fmt3(1, 2, 0)
    /\ check_ret

(***************************************************************************)
(* version_to_tup called with a version written from its numbers.          *)
(***************************************************************************)
\* the numbers the versions are written from: one and two digits
ParseNums == Nums \cup {7, 10, 12}

\* MAJOR[.MINOR[.PATCH]][+] written from the numbers of f
Format(f) ==
    (CASE f.parts = 1 -> Fmt1(f.major)
       [] f.parts = 2 -> Fmt2(f.major, f.minor)
       [] f.parts = 3 -> Fmt3(f.major, f.minor, f.patch))
    \o (IF f.plus THEN <<"+">> ELSE <<>>)

InitParse ==
    /\ pc = "call"
    /\ fmt_in \in [major : ParseNums, minor : ParseNums, patch : ParseNums,
                   parts : 1..3, plus : BOOLEAN]
    /\ vt_version = Format(fmt_in)
    /\ vt_ret = <<>>
    /\ CheckIdle /\ MatchIdle /\ CompareIdle
    /\ PrereqIdle
    /\ ToolIdle

CallVersionToTup ==
    /\ pc = "call"
    /\ pc' = "done"
    /\ vt_ret' = version_to_tup(vt_version)
    /\ UNCHANGED <<fmt_in, vt_version>>
    /\ UNCHANGED <<checkVars, matchVars, compareVars>>
    /\ UNCHANGED prereqVars
    /\ UNCHANGED toolVars

SpecParse == InitParse /\ [][CallVersionToTup]_vars

(***************************************************************************)
(* C11.  version_to_tup round-trips formatted versions: parsing "M.N.P"    *)
(* gives (M, N, P) with exact = true, "M.N" gives (M, N, 0), "M" gives     *)
(* (M, 0, 0), and an appended + changes only the exact flag, to false.     *)
(***************************************************************************)
C11_ParseOfFormat ==
    pc = "done" =>
        vt_ret = EpicsModule(fmt_in.major,
                             IF fmt_in.parts >= 2 THEN fmt_in.minor ELSE 0,
                             IF fmt_in.parts = 3 THEN fmt_in.patch ELSE 0,
                             ~fmt_in.plus)

C11_Witness ==
    /\ pc = "done"
    /\ fmt_in.parts = 3 /\ fmt_in.plus
    /\ fmt_in.major = 10 /\ fmt_in.minor = 0 /\ fmt_in.patch = 12
    /\ vt_ret = EpicsModule(10, 0, 12, FALSE)

(***************************************************************************)
(* get_prerequisites.py: strings, files and the installation tree.         *)
(*                                                                         *)
(* A text file is NoFile when it does not exist and the sequence of its    *)
(* lines otherwise, each line with its newline.  A directory of installed  *)
(* versions is the sequence os.listdir returns for it.  The installation   *)
(* prefix is its default, EPICS_MODULES_PATH (line 393).                   *)
(***************************************************************************)
\* Python None as the version of a module
NoVersion == <<"None">>

\* os.path.isfile is false
NoFile == << <<"NoFile">> >>

\* os.path.isdir is false
NoDir == << <<"NoDir">> >>

\* the IndexError of lsplit[1] on a line without a comma
IndexError == <<"IndexError">>

Whitespace == {" ", "\n", "\t", "\r"}

\* str.strip()
RECURSIVE strip(_)
strip(s) ==
    IF s = <<>> THEN s
    ELSE IF s[1] \in Whitespace THEN strip(Tail(s))
    ELSE IF s[Len(s)] \in Whitespace THEN strip(SubSeq(s, 1, Len(s) - 1))
    ELSE s

\* the positions of sep in s
Positions(s, sep) == {i \in 1..Len(s) : s[i] = sep}

Max(S) == CHOOSE x \in S : \A y \in S : y <= x
Min(S) == CHOOSE x \in S : \A y \in S : x <= y

\* str.rsplit(sep, 1)
rsplit1(s, sep) ==
    IF Positions(s, sep) = {} THEN <<s>>
    ELSE LET i == Max(Positions(s, sep))
         IN  <<SubSeq(s, 1, i - 1), SubSeq(s, i + 1, Len(s))>>

\* str.split(sep, maxsplit)
RECURSIVE split(_, _, _)
split(s, sep, maxsplit) ==
    IF maxsplit = 0 \/ Positions(s, sep) = {} THEN <<s>>
    ELSE LET i == Min(Positions(s, sep))
         IN  <<SubSeq(s, 1, i - 1)>> \o split(SubSeq(s, i + 1, Len(s)), sep, maxsplit - 1)

\* re.match(r'(0|[1-9][0-9]*)\.(0|[1-9][0-9]*)\.(0|[1-9][0-9]*)$', s): $ is
\* the end of the string or the place before a final newline
ReStableVersion(s) ==
    LET e1 == NumEnd(s, 1)
        e2 == IF e1 # 0 /\ DotAt(s, e1) THEN NumEnd(s, e1 + 1) ELSE 0
        e3 == IF e2 # 0 /\ DotAt(s, e2) THEN NumEnd(s, e2 + 1) ELSE 0
    IN  /\ e3 # 0
        /\ \/ e3 = Len(s) + 1
           \/ (e3 = Len(s) /\ s[e3] = "\n")

\* Python's order on tuples of three integers
tuple_lt(a, b) ==
    \/ a[1] < b[1]
    \/ (a[1] = b[1] /\ a[2] < b[2])
    \/ (a[1] = b[1] /\ a[2] = b[2] /\ a[3] < b[3])

module_key_first_digit(v) ==
    LET ver == split(v, ".", 2)
    IN  IF Len(ver) = 3
        THEN <<DigitVal(ver[1][1]), DigitVal(ver[2][1]), DigitVal(ver[3][1])>>
        ELSE <<0, 0, 0>>

module_key(v) ==
    LET ver == split(v, ".", 2)
    IN  IF Len(ver) = 3 THEN <<int(ver[1]), int(ver[2]), int(ver[3])>>
        ELSE <<0, 0, 0>>

\* sorted(S, key=module_key); the keys of the strings that reach it differ
RECURSIVE sorted(_)
sorted(S) ==
    IF S = {} THEN <<>>
    ELSE LET least == CHOOSE v \in S :
                          \A w \in S : ~tuple_lt(module_key(w), module_key(v))
         IN  <<least>> \o sorted(S \ {least})

\* search_dep_file from the i-th line of the file on
RECURSIVE search_dep_lines(_, _, _)
search_dep_lines(lines, module, i) ==
    IF i > Len(lines) THEN NoVersion
    ELSE LET lsplit == rsplit1(strip(lines[i]), ",")
         IN  IF lsplit[1] = module
             THEN (IF Len(lsplit) >= 2 THEN lsplit[2] ELSE IndexError)
             ELSE search_dep_lines(lines, module, i + 1)

search_dep_file(depfile, module) == search_dep_lines(depfile, module, 1)

\* a value Python's if takes as true
Truthy(v) == v # NoVersion /\ v # <<>>

\* the versions module_version collects in installed_versions
installed_versions(module, t) ==
    IF module \notin DOMAIN t THEN {}
    ELSE {t[module][i].version : i \in
            {j \in 1..Len(t[module]) :
                /\ t[module][j].depfile # NoFile
                /\ ReStableVersion(t[module][j].version)}}

first_match_reversed_unconditional(sorted_installed_versions, comp_version, i) ==
    IF i = 0 THEN NoVersion ELSE sorted_installed_versions[i]

\* for version in reversed(sorted_installed_versions), from position i down
RECURSIVE first_match_reversed(_, _, _)
first_match_reversed(sorted_installed_versions, comp_version, i) ==
    IF i = 0 THEN NoVersion
    ELSE IF module_match(comp_version, sorted_installed_versions[i])
         THEN sorted_installed_versions[i]
         ELSE first_match_reversed(sorted_installed_versions, comp_version, i - 1)

highest_installed(module, comp_version, t) ==
    LET sorted_installed_versions == sorted(installed_versions(module, t))
    IN  first_match_reversed(sorted_installed_versions, comp_version,
                             Len(sorted_installed_versions))

module_version_generic_first(module, comp_version, arch, generic, t) ==
    LET v1 == IF generic # NoFile THEN search_dep_file(generic, module) ELSE NoVersion
        v2 == IF arch # NoFile THEN search_dep_file(arch, module) ELSE NoVersion
    IN  IF v1 = IndexError THEN IndexError
        ELSE IF Truthy(v1) THEN v1
        ELSE IF v2 = IndexError THEN IndexError
        ELSE IF Truthy(v2) THEN v2
        ELSE highest_installed(module, comp_version, t)

\* module_version with the two default files and the tree it reads; the
\* IndexError of search_dep_file leaves it as it is raised
module_version_in(module, comp_version, arch, generic, t) ==
    LET v1 == IF arch # NoFile THEN search_dep_file(arch, module) ELSE NoVersion
        v2 == IF generic # NoFile THEN search_dep_file(generic, module) ELSE NoVersion
    IN  IF v1 = IndexError THEN IndexError
        ELSE IF Truthy(v1) THEN v1
        ELSE IF v2 = IndexError THEN IndexError
        ELSE IF Truthy(v2) THEN v2
        ELSE highest_installed(module, comp_version, t)

module_version(module, comp_version) ==
    module_version_in(module, comp_version, arch_default, epics_default, tree)

(***************************************************************************)
(* Inputs of module_version.                                               *)
(***************************************************************************)
\* longest listing of one module's version directories
MaxVersions == 2

ModA == <<"a">>
ModB == <<"b">>
ModX == <<"x">>

\* the line "<module>,<version>" of a dependency file
Line(m, v) == m \o <<",">> \o v \o <<"\n">>
\* the line "<module>"
BareLine(m) == m \o <<"\n">>

\* a version directory without headers, declarations and templates
PlainDir(v, depfile) ==
    [version |-> v, include |-> NoDir, dbd |-> NoFile, db |-> NoDir, depfile |-> depfile]

VersionNames ==
    {Fmt3(1, 9, 0), Fmt3(1, 10, 0), Fmt3(2, 0, 0), Fmt3(2, 1, 0) \o <<"-", "r", "c">>,
     Fmt2(3, 0)}

\* the listings of at most n directories of D, no two of the same name
RECURSIVE ListingsUpTo(_, _)
ListingsUpTo(D, n) ==
    IF n = 0 THEN {<<>>}
    ELSE LET shorter == ListingsUpTo(D, n - 1)
             longest == {k \in shorter : Len(k) = n - 1}
         IN  shorter \cup
             {Append(p[1], p[2]) :
                 p \in {q \in longest \X D :
                           \A i \in 1..Len(q[1]) : q[1][i].version # q[2].version}}

VersionDirs == {PlainDir(v, f) : v \in VersionNames, f \in {NoFile, <<>>}}

ComparisonVersions ==
    {<<>>, Fmt1(1), Fmt2(1, 0) \o <<"+">>, Fmt2(2, 0), Fmt2(1, 9) \o <<"+">>, <<"x">>}

ArchDefaults ==
    {NoFile, <<>>, <<Line(ModA, Fmt3(3, 0, 0))>>, <<Line(ModB, Fmt3(1, 0, 0))>>,
     <<Line(ModB, Fmt3(1, 0, 0)), Line(ModA, Fmt3(2, 0, 0))>>,
     <<Line(ModA, <<>>), Line(ModA, Fmt3(3, 0, 0))>>,
     <<BareLine(ModA)>>}

EpicsDefaults ==
    {NoFile, <<Line(ModB, Fmt3(1, 0, 0))>>, <<Line(ModA, Fmt3(1, 0, 0))>>,
     <<Line(ModA, Fmt3(1, 0, 0)), Line(ModA, Fmt3(2, 0, 0))>>}

InitVersion ==
    /\ pc = "call"
    /\ mv_module = ModA
    /\ mv_comp \in ComparisonVersions
    /\ mv_ret = <<>>
    /\ arch_default \in ArchDefaults
    /\ epics_default \in EpicsDefaults
    /\ \E l \in ListingsUpTo(VersionDirs, MaxVersions) :
          tree \in {[m \in {ModA} |-> l]} \cup (IF l = <<>> THEN {<<>>} ELSE {})
    /\ CheckIdle /\ MatchIdle /\ CompareIdle /\ ParseIdle
    /\ ArgsIdle /\ ResolverIdle /\ SolveIdle
    /\ ToolIdle

CallModuleVersion ==
    /\ pc = "call"
    /\ pc' = "done"
    /\ mv_ret' = module_version(mv_module, mv_comp)
    /\ UNCHANGED <<mv_module, mv_comp>>
    /\ UNCHANGED <<checkVars, matchVars, compareVars, parseVars>>
    /\ UNCHANGED <<worldVars, argVars, resolverVars, solveVars>>
    /\ UNCHANGED toolVars

SpecVersion == InitVersion /\ [][CallModuleVersion]_vars

(***************************************************************************)
(* What a default mapping file gives for a module.                         *)
(***************************************************************************)
\* the lines of the file that name the module
NamingLines(file, m) ==
    IF file = NoFile THEN {}
    ELSE {i \in 1..Len(file) : rsplit1(strip(file[i]), ",")[1] = m}

\* every line of the file that names the module is "<module>,<version>"
InDocumentedFormat(file, m) ==
    \A i \in NamingLines(file, m) : Len(rsplit1(strip(file[i]), ",")) = 2

\* the version of the first line naming the module, <<>> when there is none
GivenVersion(file, m) ==
    IF NamingLines(file, m) = {} THEN <<>>
    ELSE rsplit1(strip(file[Min(NamingLines(file, m))]), ",")[2]

\* the version directories of the module
DirsOf(m) == IF m \in DOMAIN tree THEN {tree[m][i] : i \in 1..Len(tree[m])} ELSE {}

\* v is the highest of the versions S in the (major, minor, patch) order
HighestOf(v, S) ==
    /\ v \in S
    /\ \A w \in S : ~LexLess(Triple(version_to_tup(v)), Triple(version_to_tup(w)))

(***************************************************************************)
(* C17.  Version-selection priority of module_version: the version the     *)
(* architecture-specific default file gives for the module is returned;    *)
(* otherwise the version the architecture-independent default file gives;  *)
(* installed versions count only when neither file gives a version.  The   *)
(* files hold lines "<module>,<version>" (search_dep_file's docstring).    *)
(***************************************************************************)
C17_DefaultFilesFirst ==
    (/\ pc = "done"
     /\ InDocumentedFormat(arch_default, mv_module)
     /\ InDocumentedFormat(epics_default, mv_module))
        => LET a == GivenVersion(arch_default, mv_module)
               g == GivenVersion(epics_default, mv_module)
           IN  /\ a # <<>> => mv_ret = a
               /\ (a = <<>> /\ g # <<>>) => mv_ret = g
               /\ (a = <<>> /\ g = <<>>) =>
                     mv_ret \in {NoVersion} \cup {d.version : d \in DirsOf(mv_module)}

C17_Witness ==
    /\ pc = "done"
    /\ arch_default # NoFile /\ arch_default # <<>>
    /\ NamingLines(arch_default, mv_module) = {}
    /\ GivenVersion(epics_default, mv_module) = Fmt3(1, 0, 0)
    /\ \E d \in DirsOf(mv_module) : d.version = Fmt3(2, 0, 0) /\ d.depfile # NoFile
    /\ mv_comp = <<>>
    /\ mv_ret = Fmt3(1, 0, 0)

(***************************************************************************)
(* C18.  As claimed: when no default mapping file lists the module,        *)
(* module_version returns the highest version, in the numeric (major,      *)
(* minor, patch) order, among all strictly numeric installed version       *)
(* directories of the module that satisfy module_match against the         *)
(* comparison version, and no version exactly when there is none.          *)
(***************************************************************************)
NumericMatching(m, c) ==
    {d.version : d \in {x \in DirsOf(m) :
        ValidVersion(x.version) /\ module_match(c, x.version)}}

C18_HighestNumericInstalled ==
    (/\ pc = "done"
     /\ NamingLines(arch_default, mv_module) = {}
     /\ NamingLines(epics_default, mv_module) = {})
        => IF NumericMatching(mv_module, mv_comp) = {} THEN mv_ret = NoVersion
           ELSE HighestOf(mv_ret, NumericMatching(mv_module, mv_comp))

(***************************************************************************)
(* C18, amended.  When no default mapping file lists the module,           *)
(* module_version returns the highest version, in the numeric (major,      *)
(* minor, patch) order (1.10.0 above 1.9.0), among the strictly numeric    *)
(* installed version directories of the module that hold the module's      *)
(* dependency file <version>/<base>/lib/<arch>/<module>.dep and satisfy    *)
(* module_match against the comparison version, and no version exactly     *)
(* when there is none.                                                     *)
(***************************************************************************)
NumericMatchingWithDepFile(m, c) ==
    {d.version : d \in {x \in DirsOf(m) :
        /\ ValidVersion(x.version)
        /\ x.depfile # NoFile
        /\ module_match(c, x.version)}}

C18_HighestNumericInstalledWithDepFile ==
    (/\ pc = "done"
     /\ NamingLines(arch_default, mv_module) = {}
     /\ NamingLines(epics_default, mv_module) = {})
        => IF NumericMatchingWithDepFile(mv_module, mv_comp) = {} THEN mv_ret = NoVersion
           ELSE HighestOf(mv_ret, NumericMatchingWithDepFile(mv_module, mv_comp))

C18_Witness ==
    /\ pc = "done"
    /\ NamingLines(arch_default, mv_module) = {}
    /\ NamingLines(epics_default, mv_module) = {}
    /\ NumericMatchingWithDepFile(mv_module, mv_comp) = {Fmt3(1, 9, 0), Fmt3(1, 10, 0)}
    /\ mv_comp = Fmt1(1)
    /\ mv_ret = Fmt3(1, 10, 0)

(***************************************************************************)
(* DependencyResolver.                                                     *)
(*                                                                         *)
(* The source files are read through regular expressions whose matches     *)
(* are the lines of the model: a file given to the program is [isfile,     *)
(* lines]; a line of a d-file is the sequence of the header names the      *)
(* finditer of line 105 yields on it; a line of a template file            *)
(* is <<"record", TYPE>> (line 115 matches), <<"field", VALUE>> (line 122  *)
(* matches) or <<"other">>; a line of a substitution file is               *)
(* <<"file", NAME>> (line 135 matches) or <<"other">>.  A line of a        *)
(* module's dbd file is <<"recordtype", TYPE, <<>> >>,                     *)
(* <<"device", TYPE, NAME>> or <<"other", <<>>, <<>> >>.  A version        *)
(* directory is [version, include, dbd, db, depfile]: its name, the files  *)
(* of <version>/<base>/include as <<dir, file>> (NoDir without that        *)
(* directory), the lines of <version>/<base>/dbd/<module>.dbd, the file    *)
(* names of <version>/db and the lines of                                  *)
(* <version>/<base>/lib/<arch>/<module>.dep.                               *)
(***************************************************************************)
EPICS_BASE_RECORDS ==
    {<<"a", "a", "i">>, <<"a", "a", "o">>, <<"a", "i">>, <<"a", "o">>,
     <<"a", "S", "u", "b">>, <<"b", "i">>, <<"b", "o">>,
     <<"c", "a", "l", "c">>, <<"c", "a", "l", "c", "o", "u", "t">>,
     <<"c", "o", "m", "p", "r", "e", "s", "s">>,
     <<"d", "f", "a", "n", "o", "u", "t">>, <<"e", "v", "e", "n", "t">>,
     <<"f", "a", "n", "o", "u", "t">>,
     <<"h", "i", "s", "t", "o", "g", "r", "a", "m">>,
     <<"l", "o", "n", "g", "i", "n">>, <<"l", "o", "n", "g", "o", "u", "t">>,
     <<"l", "s", "i">>, <<"l", "s", "o">>, <<"m", "b", "b", "i">>,
     <<"m", "b", "b", "i", "D", "i", "r", "e", "c", "t">>,
     <<"m", "b", "b", "o">>,
     <<"m", "b", "b", "o", "D", "i", "r", "e", "c", "t">>,
     <<"p", "e", "r", "m", "i", "s", "s", "i", "v", "e">>,
     <<"p", "r", "i", "n", "t", "f">>, <<"s", "e", "l">>, <<"s", "e", "q">>,
     <<"s", "t", "a", "t", "e">>, <<"s", "t", "r", "i", "n", "g", "i", "n">>,
     <<"s", "t", "r", "i", "n", "g", "o", "u", "t">>, <<"s", "u", "b">>,
     <<"s", "u", "b", "A", "r", "r", "a", "y">>,
     <<"w", "a", "v", "e", "f", "o", "r", "m">>}

EPICS_BASE_DEVICESUPPORTS ==
    {
     <<"A", "s", "y", "n", "c", " ", "S", "o", "f", "t", " ", "C", "h", "a", "n", "n", "e", "l">>,
     <<"D", "b", " ", "S", "t", "a", "t", "e">>,
     <<"G", "e", "n", "e", "r", "a", "l", " ", "T", "i", "m", "e">>,
     <<"R", "a", "w", " ", "S", "o", "f", "t", " ", "C", "h", "a", "n", "n", "e", "l">>,
     <<"S", "o", "f", "t", " ", "C", "h", "a", "n", "n", "e", "l">>,
     <<"S", "o", "f", "t", " ", "T", "i", "m", "e", "s", "t", "a", "m", "p">>,
     <<"s", "t", "d", "i", "o">>,
     <<"T", "e", "s", "t", " ", "A", "s", "y", "n">>}

\* the module names of the user dependencies
ud_names(userdeps) == {rsplit1(userdeps[i], ",")[1] : i \in 1..Len(userdeps)}

\* __init__: the for loop over self._ud from the i-th user dependency on,
\* [raised, deps]: whether module_version raised, and self._dependencies
RECURSIVE init_deps(_, _, _, _)
init_deps(n, userdeps, i, d) ==
    IF i > Len(userdeps) THEN [raised |-> FALSE, deps |-> d]
    ELSE LET tmp == rsplit1(userdeps[i], ",")
             modulename == tmp[1]
             moduleversion == IF Len(tmp) = 2 THEN tmp[2]
                              ELSE module_version(modulename, <<>>)
         IN  IF moduleversion = IndexError THEN [raised |-> TRUE, deps |-> d]
             ELSE IF modulename = n THEN init_deps(n, userdeps, i + 1, d)
             ELSE init_deps(n, userdeps, i + 1, d \cup {<<modulename, moduleversion>>})

\* the header names of the d-files that exist
scan_headers(dep) ==
    UNION {UNION {{dep[k].lines[l][h] : h \in 1..Len(dep[k].lines[l])} :
                     l \in 1..Len(dep[k].lines)} :
              k \in {j \in 1..Len(dep) : dep[j].isfile}}

RECURSIVE scan_db_lines_custom_records_only(_, _, _, _)
scan_db_lines_custom_records_only(lines, i, last_record, acc) ==
    IF i > Len(lines) THEN acc
    ELSE IF lines[i][1] = "record"
    THEN (IF lines[i][2] \notin EPICS_BASE_RECORDS
          THEN scan_db_lines_custom_records_only(lines, i + 1, lines[i][2],
                   [acc EXCEPT !.records = @ \cup {lines[i][2]}])
          ELSE scan_db_lines_custom_records_only(lines, i + 1, last_record, acc))
    ELSE IF lines[i][1] = "field"
    THEN scan_db_lines_custom_records_only(lines, i + 1, last_record,
             IF lines[i][2] \notin EPICS_BASE_DEVICESUPPORTS
             THEN [acc EXCEPT !.dtyps = @ \cup {<<last_record, lines[i][2]>>}] ELSE acc)
    ELSE scan_db_lines_custom_records_only(lines, i + 1, last_record, acc)

\* the for loop over the lines of one template file, from the i-th line on
RECURSIVE scan_db_lines(_, _, _, _)
scan_db_lines(lines, i, last_record, acc) ==
    IF i > Len(lines) THEN acc
    ELSE IF lines[i][1] = "record"
    THEN scan_db_lines(lines, i + 1, lines[i][2],
             IF lines[i][2] \notin EPICS_BASE_RECORDS
             THEN [acc EXCEPT !.records = @ \cup {lines[i][2]}] ELSE acc)
    ELSE IF lines[i][1] = "field"
    THEN scan_db_lines(lines, i + 1, last_record,
             IF lines[i][2] \notin EPICS_BASE_DEVICESUPPORTS
             THEN [acc EXCEPT !.dtyps = @ \cup {<<last_record, lines[i][2]>>}] ELSE acc)
    ELSE scan_db_lines(lines, i + 1, last_record, acc)

\* the for loop over the template files, from the k-th file on
RECURSIVE scan_db_files(_, _, _)
scan_db_files(db, k, acc) ==
    IF k > Len(db) THEN acc
    ELSE IF ~db[k].isfile THEN scan_db_files(db, k + 1, acc)
    ELSE scan_db_files(db, k + 1, scan_db_lines(db[k].lines, 1, <<>>, acc))

\* the template names of the substitution files that exist
scan_templates(subs) ==
    UNION {{subs[k].lines[l][2] :
                l \in {x \in 1..Len(subs[k].lines) : subs[k].lines[x][1] = "file"}} :
              k \in {j \in 1..Len(subs) : subs[j].isfile}}

\* self._matches after the three scans of resolve
scan(f) ==
    LET symbols == scan_db_files(f.db, 1, [records |-> {}, dtyps |-> {}])
    IN  [headers |-> scan_headers(f.dep), records |-> symbols.records,
         dtyps |-> symbols.dtyps, templates |-> scan_templates(f.subs)]

\* os.path.join(root[len(common_dir)+1:], headerfile)
includename(f) == IF f[1] = <<>> THEN f[2] ELSE f[1] \o <<"/">> \o f[2]

find_headers_full_path(include, headers) ==
    \E header \in headers : \E i \in 1..Len(include) :
        includename(include[i]) = header

find_headers(include, headers) ==
    \E header \in headers : \E i \in 1..Len(include) :
        includename(include[i]) = header \/ include[i][2] = header

find_records(dbd, records) ==
    \E record \in records : \E i \in 1..Len(dbd) :
        dbd[i][1] = "recordtype" /\ dbd[i][2] = record

IsPrefix(a, b) == Len(a) <= Len(b) /\ SubSeq(b, 1, Len(a)) = a

\* '^device\s*\(\s*{}[^"]*"{}"\)': the record type of the line starts with
\* dtyp[0] and its name is dtyp[1]
find_dtyps(dbd, dtyps) ==
    \E dtyp \in dtyps : \E i \in 1..Len(dbd) :
        dbd[i][1] = "device" /\ IsPrefix(dtyp[1], dbd[i][2]) /\ dbd[i][3] = dtyp[2]

find_templates(db, templates) ==
    \E template \in templates : \E i \in 1..Len(db) : db[i] = template

\* the four tests of resolve on one version directory
provides(d, m) ==
    \/ (d.include # NoDir /\ find_headers(d.include, m.headers))
    \/ (d.dbd # NoFile /\ (find_records(d.dbd, m.records) \/ find_dtyps(d.dbd, m.dtyps)))
    \/ (d.db # NoDir /\ find_templates(d.db, m.templates))

RECURSIVE scan_versions_no_break(_, _, _)
scan_versions_no_break(listing, i, m) ==
    IF i > Len(listing) THEN [checked |-> <<>>, found |-> FALSE]
    ELSE IF ~ReStableVersion(listing[i].version) THEN scan_versions_no_break(listing, i + 1, m)
    ELSE LET r == scan_versions_no_break(listing, i + 1, m)
         IN  [checked |-> <<listing[i].version>> \o r.checked,
              found |-> r.found \/ provides(listing[i], m)]

RECURSIVE scan_versions_any_version(_, _, _)
scan_versions_any_version(listing, i, m) ==
    IF i > Len(listing) THEN [checked |-> <<>>, found |-> FALSE]
    ELSE IF provides(listing[i], m)
    THEN [checked |-> <<listing[i].version>>, found |-> TRUE]
    ELSE LET r == scan_versions_any_version(listing, i + 1, m)
         IN  [checked |-> <<listing[i].version>> \o r.checked, found |-> r.found]

\* the for loop over the version directories of one module, from the i-th
\* on: the versions logged as checked and whether one of them provided
RECURSIVE scan_versions(_, _, _)
scan_versions(listing, i, m) ==
    IF i > Len(listing) THEN [checked |-> <<>>, found |-> FALSE]
    ELSE IF ~ReStableVersion(listing[i].version) THEN scan_versions(listing, i + 1, m)
    ELSE IF provides(listing[i], m)
    THEN [checked |-> <<listing[i].version>>, found |-> TRUE]
    ELSE LET r == scan_versions(listing, i + 1, m)
         IN  [checked |-> <<listing[i].version>> \o r.checked, found |-> r.found]

depends_on(modulename, d) == modulename \in {x[1] : x \in d}

\* add_dependency: the module names whose entry it adds
added_modules(hits, userdeps) == {m \in hits : m \notin ud_names(userdeps)}

\* the installed modules resolve tests against their versions
tested_modules(n, d, t) == {m \in DOMAIN t : m # n /\ ~depends_on(m, d)}

(***************************************************************************)
(* recursive_solve, as the stack of its calls in progress.  A frame is     *)
(* [module, depth, deps, lines, i, at]: the arguments, the local deps, the *)
(* lines of the dependency file being read and the next line, and where    *)
(* the call stands ("enter": called, "loop": in the for loop).             *)
(***************************************************************************)
DefaultDepth == 10

Frame(module, depth) ==
    [module |-> module, depth |-> depth, deps |-> {}, lines |-> <<>>, i |-> 0,
     at |-> "enter"]

Top == stack[Len(stack)]

\* the version directories <prefix>/<module>/<version>: one or none
version_dirs(module, t) ==
    IF module[1] \notin DOMAIN t THEN {}
    ELSE {t[module[1]][i] : i \in {j \in 1..Len(t[module[1]]) :
                                      t[module[1]][j].version = module[2]}}

merge_replace(d, r) == r

\* deps |= <returned set>
merge(d, r) == d \cup r

\* the return of the top call with the set r: to the for loop of the caller
\* or, for the outermost call, to main's deps
Return(r) ==
    IF Len(stack) = 1
    THEN /\ stack' = <<>>
         /\ deps' = merge(deps, r)
    ELSE /\ stack' = [SubSeq(stack, 1, Len(stack) - 1) EXCEPT
                         ![Len(stack) - 1].deps = merge(@, r),
                         ![Len(stack) - 1].i = @ + 1]
         /\ UNCHANGED deps

rmodule_of_bare_unversioned(line) ==
    LET depmodule == split(strip(line), ",", Len(line))
    IN  IF Len(depmodule) = 2
        THEN <<depmodule[1], module_version(depmodule[1], depmodule[2])>>
        ELSE <<depmodule[1], NoVersion>>

\* the rmodule the for loop makes of a line
rmodule_of(line) ==
    LET depmodule == split(strip(line), ",", Len(line))
    IN  IF Len(depmodule) = 2
        THEN <<depmodule[1], module_version(depmodule[1], depmodule[2])>>
        ELSE <<depmodule[1], module_version(depmodule[1], <<>>)>>

OtherThanSolve ==
    UNCHANGED <<checkVars, matchVars, compareVars, parseVars,
                worldVars, versionVars, argVars, resolverVars, toolVars>>

\* lines 291-307: from the call to the for loop, or to an early return
SolveEnter ==
    /\ pc = "closure"
    /\ stack # <<>>
    /\ Top.at = "enter"
    /\ LET module == Top.module
           dirs == version_dirs(module, tree)
           d == CHOOSE x \in dirs : TRUE
       IN  IF Top.depth = 0 THEN Return({})
           ELSE IF ~Truthy(module[2]) THEN Return({module})
           ELSE IF dirs = {} \/ d.include = NoDir THEN Return({module})
           ELSE IF d.depfile = NoFile THEN Return({module})
           ELSE /\ stack' = [stack EXCEPT ![Len(stack)] =
                                [module |-> module, depth |-> Top.depth - 1,
                                 deps |-> {module}, lines |-> d.depfile, i |-> 1,
                                 at |-> "loop"]]
                /\ UNCHANGED deps
    /\ UNCHANGED <<pc, todo, rs_call>>
    /\ OtherThanSolve

\* lines 310-317: one line of the dependency file, up to the recursive call
SolveLine ==
    /\ pc = "closure"
    /\ stack # <<>>
    /\ Top.at = "loop"
    /\ Top.i <= Len(Top.lines)
    /\ LET rmodule == rmodule_of(Top.lines[Top.i])
       IN  IF rmodule[2] = IndexError
           THEN pc' = "raised" /\ UNCHANGED stack
           ELSE pc' = pc /\ stack' = Append(stack, Frame(rmodule, Top.depth))
    /\ UNCHANGED <<todo, deps, rs_call>>
    /\ OtherThanSolve

\* line 319: the for loop is over
SolveReturn ==
    /\ pc = "closure"
    /\ stack # <<>>
    /\ Top.at = "loop"
    /\ Top.i > Len(Top.lines)
    /\ Return(Top.deps)
    /\ UNCHANGED <<pc, todo, rs_call>>
    /\ OtherThanSolve

\* main, lines 428-429: the next dependency of the for loop
SolveNext ==
    /\ pc = "closure"
    /\ stack = <<>>
    /\ \E module \in todo :
          /\ todo' = todo \ {module}
          /\ stack' = <<Frame(module, DefaultDepth)>>
    /\ UNCHANGED <<pc, deps, rs_call>>
    /\ OtherThanSolve

\* the closure is complete
SolveDone ==
    /\ pc = "closure"
    /\ stack = <<>>
    /\ todo = {}
    /\ pc' = "done"
    /\ UNCHANGED solveVars
    /\ OtherThanSolve

(***************************************************************************)
(* get_prerequisites.py main: DependencyResolver(...), resolve(), and the  *)
(* transitive closure when --recursive is given.  --prefix is left at its  *)
(* default, EPICS_MODULES_PATH, so that the resolver, module_version and   *)
(* recursive_solve read the same tree.                                     *)
(***************************************************************************)
OtherThanPrereq == UNCHANGED <<checkVars, matchVars, compareVars, parseVars, toolVars>>

\* lines 422-423: DependencyResolver.__init__
Construct ==
    /\ pc = "construct"
    /\ LET d == init_deps(name, ud, 1, {})
       IN  IF d.raised
           THEN pc' = "raised" /\ UNCHANGED dependencies
           ELSE pc' = "resolve" /\ dependencies' = d.deps
    /\ UNCHANGED <<self_matches, log>>
    /\ UNCHANGED <<worldVars, versionVars, argVars, solveVars>>
    /\ OtherThanPrereq

\* line 424: DependencyResolver.resolve
Resolve ==
    /\ pc = "resolve"
    /\ LET m == scan(files)
           tested == tested_modules(name, dependencies, tree)
           hits == {mod \in tested : scan_versions(tree[mod], 1, m).found}
           added == added_modules(hits, ud)
       IN  /\ self_matches' = m
           /\ log' = UNION {{<<mod, scan_versions(tree[mod], 1, m).checked[i]>> :
                                i \in 1..Len(scan_versions(tree[mod], 1, m).checked)} :
                            mod \in tested}
           /\ IF \E mod \in added : module_version(mod, <<>>) = IndexError
              THEN pc' = "raised" /\ UNCHANGED dependencies
              ELSE /\ pc' = "list"
                   /\ dependencies' = dependencies \cup
                         {<<mod, module_version(mod, <<>>)>> : mod \in added}
    /\ UNCHANGED <<worldVars, versionVars, argVars, solveVars>>
    /\ OtherThanPrereq

\* lines 425-431: deps, from list_deps or from the closure of its entries
ListDeps ==
    /\ pc = "list"
    /\ IF recursive
       THEN pc' = "closure" /\ todo' = dependencies /\ UNCHANGED deps
       ELSE pc' = "done" /\ deps' = dependencies /\ UNCHANGED todo
    /\ UNCHANGED <<stack, rs_call>>
    /\ UNCHANGED <<worldVars, versionVars, argVars, resolverVars>>
    /\ OtherThanPrereq

(***************************************************************************)
(* The runs of main that are checked: the module x is resolved against a   *)
(* tree that holds x itself, a module a with up to MaxVersions version     *)
(* directories and, in some runs, a module b.                              *)
(***************************************************************************)
HeaderF == <<"f", ".", "h">>
HeaderSF == <<"s", "/", "f", ".", "h">>
RecordM == <<"m">>
RecordMX == <<"m", "x">>
RecordAi == <<"a", "i">>
DtypD == <<"D">>
DtypSoft == <<"S", "o", "f", "t", " ", "C", "h", "a", "n", "n", "e", "l">>
TemplateT == <<"t", ".", "t">>

Dir(v, include, dbd, db, depfile) ==
    [version |-> v, include |-> include, dbd |-> dbd, db |-> db, depfile |-> depfile]

RunDirsA ==
    {Dir(Fmt3(1, 0, 0), << <<<<>>, HeaderF>> >>, NoFile, NoDir, <<BareLine(ModB)>>),
     Dir(Fmt3(2, 0, 0), << <<<<"s">>, HeaderF>> >>, NoFile, NoDir, <<BareLine(ModX)>>),
     Dir(Fmt3(2, 0, 0), <<>>,
         <<<<"recordtype", RecordM, <<>> >>, <<"device", RecordMX, DtypD>> >>, NoDir, NoFile),
     Dir(Fmt2(3, 0), << <<<<>>, HeaderF>> >>, NoFile, NoDir, <<>>),
     Dir(Fmt3(1, 0, 0), NoDir, NoFile, <<TemplateT>>, <<>>)}

RunTrees ==
    {[mod \in {ModX, ModA} \cup bs |->
         IF mod = ModX
         THEN <<Dir(Fmt3(1, 0, 0), << <<<<>>, HeaderF>> >>, NoFile, NoDir, <<>>)>>
         ELSE IF mod = ModA THEN l
         ELSE <<Dir(Fmt3(1, 0, 0), <<>>, NoFile, NoDir,
                    <<Line(ModA, Fmt1(1) \o <<"+">>)>>)>>] :
        l \in ListingsUpTo(RunDirsA, MaxVersions), bs \in {{}, {ModB}}}

File(lines) == [isfile |-> TRUE, lines |-> lines]
Missing == [isfile |-> FALSE, lines |-> <<>>]

RunFiles ==
    {[dep |-> <<>>, db |-> <<>>, subs |-> <<>>],
     [dep |-> <<Missing, File(<< <<HeaderF>> >>)>>, db |-> <<>>, subs |-> <<>>],
     [dep |-> <<File(<< <<>>, <<HeaderSF>> >>)>>,
      db |-> <<Missing,
               File(<<<<"field", DtypD>>, <<"record", RecordAi>>, <<"field", DtypSoft>>,
                      <<"other">>, <<"record", RecordM>>, <<"field", DtypD>> >>)>>,
      subs |-> <<File(<<<<"other">>, <<"file", TemplateT>> >>), Missing>>]}

\* the user dependency "<module>,<version>"
Override(m, v) == m \o <<",">> \o v

RunUserDependencies ==
    {<<>>,
     <<Override(ModA, Fmt3(2, 1, 0))>>,
     <<Override(ModA, Fmt3(2, 1, 0)), Override(ModA, Fmt3(1, 0, 0))>>,
     <<Override(ModX, Fmt3(1, 0, 0)), ModB>>,
     <<Override(ModB, Fmt3(1, 0, 0))>>,
     <<ModA>>}

InitRun ==
    /\ pc = "construct"
    /\ name = ModX
    /\ ud \in RunUserDependencies
    /\ files \in RunFiles
    /\ recursive \in BOOLEAN
    /\ arch_default \in {NoFile, <<Line(ModA, Fmt3(3, 0, 0))>>, <<Line(ModA, Fmt2(3, 0))>>}
    /\ epics_default \in {NoFile, <<Line(ModA, Fmt3(1, 0, 0))>>}
    /\ tree \in RunTrees
    /\ CheckIdle /\ MatchIdle /\ CompareIdle /\ ParseIdle
    /\ VersionIdle /\ ResolverIdle /\ SolveIdle
    /\ ToolIdle

NextRun ==
    \/ Construct
    \/ Resolve
    \/ ListDeps
    \/ SolveNext
    \/ SolveEnter
    \/ SolveLine
    \/ SolveReturn
    \/ SolveDone

SpecRun == InitRun /\ [][NextRun]_vars

(***************************************************************************)
(* What the claims about a run speak of.                                   *)
(***************************************************************************)
\* resolve() has returned
AfterResolve == pc \in {"list", "closure", "done"}

\* the entries of a dependency set for a module name
EntriesFor(d, m) == {e \in d : e[1] = m}

\* the i-th user dependency is "<module>,<version>", of another module
IsOverride(i) ==
    /\ Len(rsplit1(ud[i], ",")) = 2
    /\ rsplit1(ud[i], ",")[1] # name

\* the installed modules auto-detection may add: not the module being
\* resolved, not named by a user dependency
Detectable == {m \in DOMAIN tree : m # name /\ m \notin ud_names(ud)}

\* the header tree of the version directory holds the header
Publishes(d, h) ==
    /\ d.include # NoDir
    /\ \E i \in 1..Len(d.include) :
          includename(d.include[i]) = h \/ d.include[i][2] = h

\* the version directories of m, strictly numeric, whose header tree holds
\* a header of the evidence
HeaderProviders(m) ==
    {d \in DirsOf(m) :
        ValidVersion(d.version) /\ \E h \in self_matches.headers : Publishes(d, h)}

\* the version of C17 and C18 for a module, without a comparison version
SelectedVersion(m) ==
    LET a == GivenVersion(arch_default, m)
        g == GivenVersion(epics_default, m)
        inst == NumericMatchingWithDepFile(m, <<>>)
    IN  IF a # <<>> THEN a
        ELSE IF g # <<>> THEN g
        ELSE IF inst = {} THEN NoVersion
        ELSE CHOOSE v \in inst : HighestOf(v, inst)

\* the places in m's version list of the strictly numeric versions that
\* provide the evidence
Qualifying(m) ==
    {i \in 1..Len(tree[m]) :
        ValidVersion(tree[m][i].version) /\ provides(tree[m][i], self_matches)}

(***************************************************************************)
(* C12.  User override wins, as claimed: when an override "name,version"   *)
(* is supplied with name different from the module being resolved, then    *)
(* after construction and resolve() the dependency set contains exactly    *)
(* one entry for that name, (name, version), whatever is installed or      *)
(* listed in the default mapping files.                                    *)
(***************************************************************************)
C12_UserOverrideWins ==
    AfterResolve =>
        \A i \in 1..Len(ud) :
            IsOverride(i) =>
                EntriesFor(dependencies, rsplit1(ud[i], ",")[1]) =
                    {<<rsplit1(ud[i], ",")[1], rsplit1(ud[i], ",")[2]>>}

(***************************************************************************)
(* C13.  Uniqueness by module name, as claimed: in the dependency set of   *)
(* the resolver after resolve(), and in the set a run ends with (after the *)
(* transitive closure when it is asked for), no module name occurs in two  *)
(* entries with different versions.                                        *)
(***************************************************************************)
UniqueByName(d) == \A e1 \in d : \A e2 \in d : e1[1] = e2[1] => e1 = e2

C13_UniqueByName ==
    /\ AfterResolve => UniqueByName(dependencies)
    /\ pc = "done" => UniqueByName(deps)

(***************************************************************************)
(* C14.  Self-dependency is excluded, as claimed: the dependency set a run *)
(* ends with, with or without the transitive closure, never contains an    *)
(* entry whose module name is the module being resolved, and the run does  *)
(* not raise.                                                              *)
(***************************************************************************)
C14_NoSelfDependency ==
    /\ pc # "raised"
    /\ pc = "done" => EntriesFor(deps, name) = {}

(***************************************************************************)
(* C15.  Header-evidence detection, as claimed: when the evidence holds a  *)
(* header name and an installed module M (not the module being resolved,   *)
(* not overridden) has a strictly numeric version V whose header tree      *)
(* holds that header, resolve() yields the dependency (M, V).              *)
(***************************************************************************)
C15_HeaderEvidenceYieldsThatVersion ==
    AfterResolve =>
        \A m \in Detectable : \A d \in HeaderProviders(m) :
            <<m, d.version>> \in dependencies

(***************************************************************************)
(* C15, amended.  When the evidence holds a header name and an installed   *)
(* module M (not the module being resolved, not overridden) has a strictly *)
(* numeric version whose header tree holds that header, resolve() yields   *)
(* exactly one dependency on M, and its version is the one module_version  *)
(* selects for M: the version a default mapping file gives for M,          *)
(* otherwise the highest strictly numeric installed version of M that      *)
(* holds M's dependency file, otherwise none.  It is (M, V) when V is the  *)
(* only version directory of M, holds M's dependency file, and no default  *)
(* mapping file lists M.                                                   *)
(***************************************************************************)
C15_HeaderEvidenceYieldsSelectedVersion ==
    AfterResolve =>
        \A m \in Detectable : \A d \in HeaderProviders(m) :
            /\ EntriesFor(dependencies, m) = {<<m, SelectedVersion(m)>>}
            /\ (/\ DirsOf(m) = {d}
                /\ d.depfile # NoFile
                /\ NamingLines(arch_default, m) = {}
                /\ NamingLines(epics_default, m) = {})
                  => <<m, d.version>> \in dependencies

C15_Witness ==
    /\ AfterResolve
    /\ ModA \in Detectable
    /\ \E d \in HeaderProviders(ModA) : d.version = Fmt3(1, 0, 0)
    /\ Len(tree[ModA]) = 2
    /\ arch_default = NoFile /\ epics_default = NoFile
    /\ dependencies = {<<ModA, Fmt3(2, 0, 0)>>}

(***************************************************************************)
(* C16.  First qualifying version wins, as claimed: when several strictly  *)
(* numeric installed versions of a module each provide the evidence, the   *)
(* version recorded for the auto-detected dependency is the first          *)
(* qualifying version of the module's version list, and the module is not  *)
(* tested against further versions.                                        *)
(***************************************************************************)
\* the versions of m's version list after the first qualifying one
AfterFirstQualifying(m) ==
    {tree[m][i].version : i \in {j \in 1..Len(tree[m]) : j > Min(Qualifying(m))}}

C16_FirstQualifyingVersionRecorded ==
    AfterResolve =>
        \A m \in Detectable :
            Cardinality(Qualifying(m)) >= 2 =>
                /\ EntriesFor(dependencies, m) =
                      {<<m, tree[m][Min(Qualifying(m))].version>>}
                /\ \A v \in AfterFirstQualifying(m) : <<m, v>> \notin log

(***************************************************************************)
(* C16, amended.  When several strictly numeric installed versions of a    *)
(* module each provide the evidence, the module is tested against the      *)
(* strictly numeric versions of its version list up to the first           *)
(* qualifying one and against no further version; the version recorded for *)
(* the auto-detected dependency is not the version directory in which the  *)
(* evidence was found but the one module_version selects for the module    *)
(* (C17, C18).                                                             *)
(***************************************************************************)
C16_FirstQualifyingStopsTheSearch ==
    AfterResolve =>
        \A m \in Detectable :
            Cardinality(Qualifying(m)) >= 2 =>
                /\ EntriesFor(dependencies, m) = {<<m, SelectedVersion(m)>>}
                /\ <<m, tree[m][Min(Qualifying(m))].version>> \in log
                /\ \A v \in AfterFirstQualifying(m) : <<m, v>> \notin log

C16_Witness ==
    /\ AfterResolve
    /\ ModA \in Detectable
    /\ Qualifying(ModA) = {1, 2}
    /\ tree[ModA][1].version = Fmt3(1, 0, 0)
    /\ tree[ModA][2].version = Fmt3(2, 0, 0)
    /\ <<ModA, Fmt3(1, 0, 0)>> \in log
    /\ <<ModA, Fmt3(2, 0, 0)>> \notin log
    /\ dependencies = {<<ModA, Fmt3(2, 0, 0)>>}

(***************************************************************************)
(* recursive_solve(module, args, depth) called on its own: on a module a   *)
(* or b, at a depth of 0, 1, 2 or the default, against a tree that holds   *)
(* one version of a and, in some calls, one of b.  The set it returns is   *)
(* what deps holds when the call is over.                                  *)
(***************************************************************************)
SolveDepths == {0, 1, 2, DefaultDepth}

SolveModules ==
    {<<ModA, Fmt3(1, 0, 0)>>, <<ModA, NoVersion>>, <<ModA, Fmt3(2, 0, 0)>>,
     <<ModB, Fmt3(1, 0, 0)>>}

SolveDepFilesA ==
    {NoFile, <<>>, <<BareLine(ModB)>>, <<Line(ModB, Fmt2(1, 0) \o <<"+">>)>>,
     <<Line(ModB, Fmt2(1, 9) \o <<"+">>)>>,
     <<BareLine(ModB), BareLine(ModA)>>, <<BareLine(ModB), BareLine(ModX)>>,
     << <<"\n">> >>}

SolveDepFilesB ==
    {NoFile, <<BareLine(ModA)>>, <<Line(ModA, Fmt1(1) \o <<"+">>)>>,
     <<Line(ModA, Fmt1(1) \o <<"+">>), BareLine(ModB)>>,
     <<Override(ModA, Fmt2(1, 0)) \o <<",", "x", "\n">> >>}

SolveTrees ==
    {[mod \in {ModA} \cup bs |->
         IF mod = ModA THEN <<Dir(Fmt3(1, 0, 0), ia, NoFile, NoDir, da)>>
         ELSE <<Dir(Fmt3(1, 0, 0), <<>>, NoFile, NoDir, db)>>] :
        ia \in {NoDir, <<>>}, da \in SolveDepFilesA, db \in SolveDepFilesB,
        bs \in {{}, {ModB}}}

InitSolve ==
    /\ pc = "closure"
    /\ name = ModX
    /\ ud = <<>>
    /\ files = [dep |-> <<>>, db |-> <<>>, subs |-> <<>>]
    /\ recursive = TRUE
    /\ arch_default = NoFile
    /\ epics_default \in {NoFile, <<BareLine(ModB)>>, <<Line(ModB, Fmt3(2, 0, 0))>>}
    /\ tree \in SolveTrees
    /\ rs_call \in [module : SolveModules, depth : SolveDepths]
    /\ stack = <<Frame(rs_call.module, rs_call.depth)>>
    /\ todo = {}
    /\ deps = {}
    /\ CheckIdle /\ MatchIdle /\ CompareIdle /\ ParseIdle
    /\ VersionIdle /\ ResolverIdle
    /\ ToolIdle

NextSolve ==
    \/ SolveEnter
    \/ SolveLine
    \/ SolveReturn
    \/ SolveDone

SpecSolve == InitSolve /\ [][NextSolve]_vars

(***************************************************************************)
(* C19.  Depth exhaustion, as claimed: recursive_solve called with depth 0 *)
(* on a dependency returns the singleton set holding that dependency,      *)
(* without raising.                                                        *)
(***************************************************************************)
C19_DepthZeroReturnsSingleton ==
    rs_call.depth = 0 =>
        /\ pc # "raised"
        /\ pc = "done" => deps = {rs_call.module}

(***************************************************************************)
(* C20.  Termination on cycles: when the recorded dependency file of a     *)
(* lists only b and that of b lists only a, recursive_solve called on a    *)
(* with the default depth 10 does not raise and returns the set {a, b},    *)
(* each with its resolved version; every call in progress was made with a  *)
(* depth strictly smaller than its caller's, and a call made with depth 0  *)
(* makes no call.  It terminates: every step of the call, up to the one    *)
(* that ends it, lowers the number of steps the calls in progress can      *)
(* still take, which is a natural number.                                  *)
(***************************************************************************)
\* the module names the dependency file of a version directory lists
Listed(d) ==
    {split(strip(d.depfile[i]), ",", Len(d.depfile[i]))[1] : i \in 1..Len(d.depfile)}

\* the one version of m has its header directory, and its dependency file
\* lists exactly the modules S, each with no constraint or one that its
\* installed version satisfies
ListsExactly(m, S) ==
    /\ m \in DOMAIN tree
    /\ \A d \in DirsOf(m) :
          /\ d.version = Fmt3(1, 0, 0)
          /\ d.include # NoDir
          /\ d.depfile # NoFile
          /\ Listed(d) = S
          /\ \A i \in 1..Len(d.depfile) :
                LET depmodule == split(strip(d.depfile[i]), ",", Len(d.depfile[i]))
                IN  Len(depmodule) = 2 => module_match(depmodule[2], Fmt3(1, 0, 0))

CyclicCall ==
    /\ ListsExactly(ModA, {ModB})
    /\ ListsExactly(ModB, {ModA})
    /\ epics_default = NoFile
    /\ rs_call = [module |-> <<ModA, Fmt3(1, 0, 0)>>, depth |-> DefaultDepth]

\* the depth the k-th call in progress was made with
DepthArgument(k) ==
    IF stack[k].at = "enter" THEN stack[k].depth ELSE stack[k].depth + 1

CallsDescend ==
    \A k \in 1..(Len(stack) - 1) :
        /\ DepthArgument(k) > 0
        /\ DepthArgument(k + 1) < DepthArgument(k)

\* the longest dependency file of the tree, in lines
LongestDepFile ==
    Max({0} \cup {Len(d.depfile) :
                    d \in {x \in UNION {DirsOf(m) : m \in DOMAIN tree} :
                              x.depfile # NoFile}})

\* the most steps a call made with depth d can take
RECURSIVE MostSteps(_)
MostSteps(d) ==
    IF d = 0 THEN 1 ELSE 2 + LongestDepFile * (1 + MostSteps(d - 1))

\* the most steps the calls in progress from the k-th on can still take:
\* for a call just made, the whole call; otherwise the lines it has still to
\* read, each with the call it makes, and its return
RECURSIVE StepsLeftFrom(_, _)
StepsLeftFrom(s, k) ==
    IF k > Len(s) THEN 0
    ELSE (LET f == s[k]
          IN  IF f.at = "enter" THEN MostSteps(f.depth)
              ELSE (Len(f.lines) - f.i + (IF k = Len(s) THEN 1 ELSE 0))
                       * (1 + MostSteps(f.depth)) + 1)
         + StepsLeftFrom(s, k + 1)

C20_CycleTerminates ==
    /\ [](CyclicCall =>
            /\ pc \in {"closure", "done"}
            /\ CallsDescend
            /\ pc = "done" =>
                  deps = {<<ModA, Fmt3(1, 0, 0)>>, <<ModB, Fmt3(1, 0, 0)>>})
    /\ [][CyclicCall =>
            \/ StepsLeftFrom(stack', 1) < StepsLeftFrom(stack, 1)
            \/ (stack = <<>> /\ pc' = "done")]_vars

C20_Witness ==
    /\ CyclicCall
    /\ Len(stack) = DefaultDepth + 1
    /\ Top.at = "enter"
    /\ Top.depth = 0

(***************************************************************************)
(* C21.  As claimed: the transitive solve of a versioned dependency a      *)
(* whose own recorded dependency file lists b with no version returns      *)
(* exactly the set {a, b}, with b carrying no version.                     *)
(***************************************************************************)
\* the version directory of the call's module has its header directory and
\* a dependency file whose lines are all the bare name n
ListsBare(n) ==
    /\ version_dirs(rs_call.module, tree) # {}
    /\ \A d \in version_dirs(rs_call.module, tree) :
          /\ d.include # NoDir
          /\ d.depfile # NoFile
          /\ d.depfile # <<>>
          /\ \A i \in 1..Len(d.depfile) : d.depfile[i] = BareLine(n)

\* recursive_solve is called on a 1.0.0 with the default depth, and the
\* dependency file of a 1.0.0 lists b with no version
SolveOfAListingBareB ==
    /\ rs_call = [module |-> <<ModA, Fmt3(1, 0, 0)>>, depth |-> DefaultDepth]
    /\ ListsBare(ModB)

EvidenceOnlyUnderOtherDirs(m) ==
    /\ Qualifying(m) = {}
    /\ \E i \in 1..Len(tree[m]) : provides(tree[m][i], self_matches)

MaxScanLines == 2

ScanLines ==
    {<<"record", RecordAi>>, <<"record", RecordM>>, <<"field", DtypD>>,
     <<"field", DtypSoft>>, <<"other">>}

ScanFiles == {Missing} \cup {File(l) : l \in ListsUpTo(ScanLines, MaxScanLines)}

InitScan ==
    /\ pc = "call"
    /\ name = ModX
    /\ ud = <<>>
    /\ \E db \in {<<>>} \cup {<<f>> : f \in ScanFiles}
                  \cup {<<f, g>> : f \in ScanFiles, g \in ScanFiles} :
          files = [dep |-> <<>>, db |-> db, subs |-> <<>>]
    /\ recursive = FALSE
    /\ CheckIdle /\ MatchIdle /\ CompareIdle /\ ParseIdle
    /\ WorldIdle /\ VersionIdle /\ ResolverIdle /\ SolveIdle
    /\ ToolIdle

\* lines 99-137 of resolve
CallScan ==
    /\ pc = "call"
    /\ pc' = "done"
    /\ self_matches' = scan(files)
    /\ UNCHANGED <<dependencies, log>>
    /\ UNCHANGED <<worldVars, versionVars, argVars, solveVars>>
    /\ OtherThanPrereq

SpecScan == InitScan /\ [][CallScan]_vars

\* the template files that exist
TemplateFiles == {k \in 1..Len(files.db) : files.db[k].isfile}

\* the record declarations of file k before line j
RecordsBefore(k, j) ==
    {i \in 1..(j - 1) : files.db[k].lines[i][1] = "record"}

\* the DTYP field lines of file k whose value is not built in
CustomDtypLines(k) ==
    {j \in 1..Len(files.db[k].lines) :
        /\ files.db[k].lines[j][1] = "field"
        /\ files.db[k].lines[j][2] \notin EPICS_BASE_DEVICESUPPORTS}

\* the pairs (T, V) of a DTYP field line with a value V not built in and
\* the type T of the most recent record declaration before it in its file
ScopedPairs ==
    UNION {{<<files.db[k].lines[Max(RecordsBefore(k, j))][2], files.db[k].lines[j][2]>> :
               j \in {x \in CustomDtypLines(k) : RecordsBefore(k, x) # {}}} :
           k \in TemplateFiles}

\* the pairs ('', V) of a DTYP field line with a value V not built in that
\* no record declaration precedes in its file
UnscopedPairs ==
    UNION {{<< <<>>, files.db[k].lines[j][2]>> :
               j \in {x \in CustomDtypLines(k) : RecordsBefore(k, x) = {}}} :
           k \in TemplateFiles}

\* the types of the record declarations that are not built in
CustomRecords ==
    UNION {{files.db[k].lines[i][2] :
               i \in {x \in 1..Len(files.db[k].lines) :
                         /\ files.db[k].lines[x][1] = "record"
                         /\ files.db[k].lines[x][2] \notin EPICS_BASE_RECORDS}} :
           k \in TemplateFiles}

InitSelect == InitVersion \/ InitSolve

NextSelect == CallModuleVersion \/ NextSolve

SpecSelect == InitSelect /\ [][NextSelect]_vars

\* module_version was called on its own and has returned
VersionReturned == pc = "done" /\ rs_call = <<>>

\* the default mapping files give no version for m
NoDefaultFor(m) ==
    /\ InDocumentedFormat(arch_default, m) /\ GivenVersion(arch_default, m) = <<>>
    /\ InDocumentedFormat(epics_default, m) /\ GivenVersion(epics_default, m) = <<>>

\* the recursive_solve calls in progress that a line "name,constraint" made
ConstrainedCalls ==
    {k \in 2..Len(stack) :
        Len(split(strip(stack[k - 1].lines[stack[k - 1].i]), ",",
                  Len(stack[k - 1].lines[stack[k - 1].i]))) = 2}

\* the constraint of the line that made call k
ConstraintOf(k) ==
    split(strip(stack[k - 1].lines[stack[k - 1].i]), ",",
          Len(stack[k - 1].lines[stack[k - 1].i]))[2]

(***************************************************************************)
(* C26.  As claimed: a version module_version returns satisfies            *)
(* module_match against the comparison version, whichever lookup source    *)
(* produced it, and so does the version of every versioned entry the       *)
(* transitive solver makes of a dependency-file line "name,constraint".    *)
(***************************************************************************)
C26_SelectedSatisfiesConstraint ==
    /\ (VersionReturned /\ mv_ret # NoVersion /\ mv_ret # IndexError)
          => module_match(mv_comp, mv_ret)
    /\ \A k \in ConstrainedCalls :
          Truthy(stack[k].module[2])
              => module_match(ConstraintOf(k), stack[k].module[2])

(***************************************************************************)
(* C26, amended.  A version module_version takes from the installed        *)
(* version directories satisfies module_match against the comparison       *)
(* version; a version a default mapping file gives for the module is       *)
(* returned as it is written there, whether or not it satisfies the        *)
(* comparison version.  Hence the version of an entry the transitive       *)
(* solver makes of a dependency-file line "name,constraint" satisfies the  *)
(* constraint when no default mapping file gives the name a version, and   *)
(* is the default file's version otherwise.                                *)
(***************************************************************************)
C26_InstalledSatisfiesConstraint ==
    /\ (VersionReturned /\ mv_ret # NoVersion /\ mv_ret # IndexError)
          => IF NoDefaultFor(mv_module)
             THEN /\ module_match(mv_comp, mv_ret)
                  /\ \E d \in DirsOf(mv_module) : d.version = mv_ret
             ELSE mv_ret \in {GivenVersion(arch_default, mv_module),
                              GivenVersion(epics_default, mv_module)}
    /\ \A k \in ConstrainedCalls :
          Truthy(stack[k].module[2])
              => IF NoDefaultFor(stack[k].module[1])
                 THEN /\ module_match(ConstraintOf(k), stack[k].module[2])
                      /\ \E d \in DirsOf(stack[k].module[1]) :
                            d.version = stack[k].module[2]
                 ELSE stack[k].module[2] \in
                         {GivenVersion(arch_default, stack[k].module[1]),
                          GivenVersion(epics_default, stack[k].module[1])}

\* module_version passes over the highest installed version, which does not
\* satisfy the comparison version, and returns a lower one that does
C26_Witness ==
    /\ VersionReturned
    /\ NoDefaultFor(mv_module)
    /\ mv_comp = Fmt2(1, 9) \o <<"+">>
    /\ mv_ret = Fmt3(1, 9, 0)
    /\ \E d \in DirsOf(mv_module) :
          /\ d.version = Fmt3(2, 0, 0)
          /\ d.depfile # NoFile

(***************************************************************************)
(* get_prerequisites.py format_dep (lines 356-368): the text of the        *)
(* dependency file written for the modules, taken in the order the for     *)
(* loop visits them.                                                       *)
(***************************************************************************)
RECURSIVE format_dep_minor_slip(_, _)
format_dep_minor_slip(modules, i) ==
    IF i > Len(modules) THEN <<>>
    ELSE LET module == modules[i]
             v == split(module[2], ".", Len(module[2]))
         IN  (IF Truthy(module[2])
              THEN (IF Len(v) > 1
                    THEN module[1] \o <<",">> \o v[1] \o <<".">> \o v[Len(v)] \o <<"+", "\n">>
                    ELSE module[1] \o <<",">> \o v[1] \o <<"\n">>)
              ELSE module[1] \o <<"\n">>)
             \o format_dep_minor_slip(modules, i + 1)

\* the for loop of format_dep from the i-th module on
RECURSIVE format_dep(_, _)
format_dep(modules, i) ==
    IF i > Len(modules) THEN <<>>
    ELSE LET module == modules[i]
             v == split(module[2], ".", Len(module[2]))
         IN  (IF Truthy(module[2])
              THEN (IF Len(v) > 1
                    THEN module[1] \o <<",">> \o v[1] \o <<".">> \o v[2] \o <<"+", "\n">>
                    ELSE module[1] \o <<",">> \o v[1] \o <<"\n">>)
              ELSE module[1] \o <<"\n">>)
             \o format_dep(modules, i + 1)

\* for line in filehandler: the lines of a text, each with its newline
RECURSIVE readlines(_)
readlines(text) ==
    IF text = <<>> THEN <<>>
    ELSE IF Positions(text, "\n") = {} THEN <<text>>
    ELSE LET i == Min(Positions(text, "\n"))
         IN  <<SubSeq(text, 1, i)>> \o readlines(SubSeq(text, i + 1, Len(text)))

\* the versions of the dependencies handed to format_dep
FormatVersions ==
    {Fmt3(M, N, P) : M \in ParseNums, N \in ParseNums, P \in ParseNums}
    \cup {NoVersion, <<>>, Fmt1(1), Fmt2(1, 2), Fmt3(1, 2, 3) \o <<".", "4">>,
          Fmt3(2, 1, 0) \o <<"-", "r", "c">>}

InitFormat ==
    /\ pc = "call"
    /\ fd_modules \in
          {<< <<ModA, v>> >> : v \in FormatVersions}
          \cup {<< <<ModB, w>>, <<ModA, v>> >> :
                   w \in {NoVersion, Fmt1(1), Fmt3(1, 0, 0)},
                   v \in {Fmt3(1, 2, 0), Fmt3(2, 0, 7), Fmt3(10, 12, 1)}}
    /\ fd_ret = <<>>
    /\ ExpandIdle
    /\ CheckIdle /\ MatchIdle /\ CompareIdle /\ ParseIdle /\ PrereqIdle

CallFormatDep ==
    /\ pc = "call"
    /\ pc' = "done"
    /\ fd_ret' = format_dep(fd_modules, 1)
    /\ UNCHANGED fd_modules
    /\ UNCHANGED expandVars
    /\ UNCHANGED <<checkVars, matchVars, compareVars, parseVars, prereqVars>>

SpecFormat == InitFormat /\ [][CallFormatDep]_vars

\* the constraint recursive_solve reads from a line "name,constraint"
ReadConstraint(line) == split(strip(line), ",", Len(line))[2]

(***************************************************************************)
(* C25.  Persisted constraint round trip: for every dependency             *)
(* (m, M.N.P) handed to format_dep the line written for it is "m,M.N+",    *)
(* recursive_solve reads the module m and the constraint M.N+ back from    *)
(* that line, and module_match of that constraint and the original         *)
(* version M.N.P is true.                                                  *)
(***************************************************************************)
C25_PersistedConstraintRoundTrip ==
    pc = "done" =>
        /\ Len(readlines(fd_ret)) = Len(fd_modules)
        /\ \A i \in 1..Len(fd_modules) :
              ValidVersion(fd_modules[i][2]) =>
                  LET line == readlines(fd_ret)[i]
                      t == version_to_tup(fd_modules[i][2])
                  IN  /\ line = fd_modules[i][1] \o <<",">>
                                   \o Fmt2(t.major, t.minor) \o <<"+", "\n">>
                      /\ split(strip(line), ",", Len(line))[1] = fd_modules[i][1]
                      /\ ReadConstraint(line) = Fmt2(t.major, t.minor) \o <<"+">>
                      /\ module_match(ReadConstraint(line), fd_modules[i][2])

C25_Witness ==
    /\ pc = "done"
    /\ fd_modules = << <<ModB, NoVersion>>, <<ModA, Fmt3(10, 12, 1)>> >>
    /\ fd_ret = BareLine(ModB) \o Line(ModA, Fmt2(10, 12) \o <<"+">>)

(***************************************************************************)
(* expand_dbd.py: ExpandDBD.add_dbd and find, and main's for loop over     *)
(* args.files.  A path is a string; the files are those of the working     *)
(* directory, so that the paths n and ./n name the same file.  A line of   *)
(* a file is a comment, an include of a name, or any other text; a written *)
(* line is recorded as the pair of its file and its line number.  The      *)
(* record names --list-records prints go to standard output only and are   *)
(* left out, as is the removal of quotes from the written text.            *)
(***************************************************************************)
\* find returns None
NotFound == <<"None">>

\* the TypeError of iterating over self._includedir when no -I was given
TypeError == <<"TypeError">>

dbCommon == <<"d", "b", "C", "o", "m", "m", "o", "n", ".", "d", "b", "d">>

\* str.endswith
endswith(s, suffix) ==
    /\ Len(s) >= Len(suffix)
    /\ SubSeq(s, Len(s) - Len(suffix) + 1, Len(s)) = suffix

\* os.path.join of a directory and a relative name
join(directory, n) ==
    IF directory = <<>> THEN n
    ELSE IF directory[Len(directory)] = "/" THEN directory \o n
    ELSE directory \o <<"/">> \o n

\* the name in the working directory that a path leads to
RECURSIVE target(_)
target(path) ==
    IF Len(path) >= 2 /\ SubSeq(path, 1, 2) = <<".", "/">>
    THEN target(SubSeq(path, 3, Len(path)))
    ELSE path

\* os.path.isfile
isfile(path) == target(path) \in DOMAIN dbdtree

\* the lines open(path) reads
lines_of(path) == dbdtree[target(path)]

\* the for loop of find from the k-th include directory on
RECURSIVE find_from(_, _)
find_from(dbd, k) ==
    IF k > Len(includedir.dirs) THEN NotFound
    ELSE IF isfile(join(includedir.dirs[k], dbd)) THEN join(includedir.dirs[k], dbd)
    ELSE find_from(dbd, k + 1)

\* ExpandDBD.find
find(dbd) == IF ~includedir.given THEN TypeError ELSE find_from(dbd, 1)

DbdFrame(dbd) == [dbd |-> dbd, i |-> 1]

DbdTop == dbd_stack[Len(dbd_stack)]

\* the elements of a list
Elements(l) == {l[i] : i \in 1..Len(l)}

add_dbd_mark_after_read(dbd, callers) ==
    IF dbd \in Elements(added_files)
    THEN /\ dbd_stack' = callers
         /\ UNCHANGED <<pc, added_files>>
    ELSE /\ added_files' = added_files
         /\ IF isfile(dbd)
            THEN pc' = pc /\ dbd_stack' = Append(callers, DbdFrame(dbd))
            ELSE pc' = "raised" /\ dbd_stack' = callers

\* lines 59-65 of add_dbd, called with the frames callers below it: the
\* test of _added_files, the append, and open, which raises IOError for a
\* path that is no file
add_dbd(dbd, callers) ==
    IF dbd \in Elements(added_files)
    THEN /\ dbd_stack' = callers
         /\ UNCHANGED <<pc, added_files>>
    ELSE /\ added_files' = IF endswith(dbd, dbCommon) THEN added_files
                           ELSE Append(added_files, dbd)
         /\ IF isfile(dbd)
            THEN pc' = pc /\ dbd_stack' = Append(callers, DbdFrame(dbd))
            ELSE pc' = "raised" /\ dbd_stack' = callers

OtherThanExpand ==
    UNCHANGED <<checkVars, matchVars, compareVars, parseVars, prereqVars, formatVars>>

\* main, lines 136-137: the next file of args.files
MainAddDbd ==
    /\ pc = "run"
    /\ dbd_stack = <<>>
    /\ dbd_k <= Len(dbd_files)
    /\ add_dbd(dbd_files[dbd_k], <<>>)
    /\ dbd_k' = dbd_k + 1
    /\ UNCHANGED <<includedir, dbdtree, dbd_files, outputfile>>
    /\ OtherThanExpand

\* lines 66-93: one line of the file of the innermost call
AddDbdLine ==
    /\ pc = "run"
    /\ dbd_stack # <<>>
    /\ DbdTop.i <= Len(lines_of(DbdTop.dbd))
    /\ LET line == lines_of(DbdTop.dbd)[DbdTop.i]
           advanced == [dbd_stack EXCEPT ![Len(dbd_stack)].i = @ + 1]
           dbdfile == IF line[1] = "include" THEN find(line[2]) ELSE NotFound
           written == IF outputfile.isopen
                      THEN [outputfile EXCEPT
                               !.lines = Append(@, <<target(DbdTop.dbd), DbdTop.i>>)]
                      ELSE outputfile
       IN  IF line[1] = "comment"
           THEN /\ dbd_stack' = advanced
                /\ UNCHANGED <<pc, added_files, outputfile>>
           ELSE IF dbdfile = TypeError
           THEN /\ pc' = "raised"
                /\ UNCHANGED <<dbd_stack, added_files, outputfile>>
           ELSE IF dbdfile # NotFound
           THEN /\ add_dbd(dbdfile, advanced)
                /\ UNCHANGED outputfile
           ELSE /\ outputfile' = written
                /\ dbd_stack' = advanced
                /\ UNCHANGED <<pc, added_files>>
    /\ UNCHANGED <<includedir, dbdtree, dbd_files, dbd_k>>
    /\ OtherThanExpand

\* the for loop over the lines of the file is over: add_dbd returns
AddDbdReturn ==
    /\ pc = "run"
    /\ dbd_stack # <<>>
    /\ DbdTop.i > Len(lines_of(DbdTop.dbd))
    /\ dbd_stack' = SubSeq(dbd_stack, 1, Len(dbd_stack) - 1)
    /\ UNCHANGED <<pc, includedir, dbdtree, dbd_files, dbd_k, added_files, outputfile>>
    /\ OtherThanExpand

\* main's for loop is over
ExpandDone ==
    /\ pc = "run"
    /\ dbd_stack = <<>>
    /\ dbd_k > Len(dbd_files)
    /\ pc' = "done"
    /\ UNCHANGED expandVars
    /\ OtherThanExpand

(***************************************************************************)
(* The runs of expand_dbd that are checked: the working directory holds a, *)
(* b and a third file that is named dbCommon.dbd, xdbCommon.dbd or c.  The *)
(* third file does not include itself: add_dbd of a file ending in         *)
(* dbCommon.dbd that includes itself recurses until the interpreter stops  *)
(* it.                                                                     *)
(***************************************************************************)
\* most lines of the file a
MaxDbdLines == 2

FileA == <<"a">>
FileB == <<"b">>
FileC == <<"c">>
FileM == <<"m">>
xdbCommon == <<"x">> \o dbCommon

Text == <<"text">>
Comment == <<"comment">>
Include(n) == <<"include", n>>

ThirdNames == {dbCommon, xdbCommon, FileC}

\* the working directories whose third file is named c
DbdTreesWith(c) ==
    {[n \in {FileA, FileB, c} |->
         IF n = FileA THEN la ELSE IF n = FileB THEN lb ELSE lc] :
        la \in ListsUpTo({Text, Include(FileA), Include(FileB), Include(c)}, MaxDbdLines),
        lb \in {<<Text>>, <<Include(FileA), Text>>, <<Include(c), Include(c)>>,
                <<Comment, Include(FileM)>>},
        lc \in {<<Text>>, <<Include(FileB), Text>>}}

DbdTrees == UNION {DbdTreesWith(c) : c \in ThirdNames}

DbdArguments ==
    {<<FileA>>, <<<<".", "/">> \o FileA>>, <<FileA, FileB>>, <<FileM>>}
    \cup {<<FileB, c, c>> : c \in ThirdNames}

IncludeDirs ==
    {[given |-> FALSE, dirs |-> <<>>], [given |-> TRUE, dirs |-> << <<".">> >>],
     [given |-> TRUE, dirs |-> << <<"d">>, <<".", "/">> >>]}

InitExpand ==
    /\ pc = "run"
    /\ includedir \in IncludeDirs
    /\ dbdtree \in DbdTrees
    /\ dbd_files \in DbdArguments
    /\ dbd_k = 1
    /\ added_files = <<>>
    /\ outputfile \in {[isopen |-> o, lines |-> <<>>] : o \in BOOLEAN}
    /\ dbd_stack = <<>>
    /\ FormatIdle
    /\ CheckIdle /\ MatchIdle /\ CompareIdle /\ ParseIdle /\ PrereqIdle

NextExpand ==
    \/ MainAddDbd
    \/ AddDbdLine
    \/ AddDbdReturn
    \/ ExpandDone

SpecExpand == InitExpand /\ [][NextExpand]_vars

\* how often line i of the file f was written to the output
TimesWritten(f, i) ==
    Cardinality({k \in 1..Len(outputfile.lines) : outputfile.lines[k] = <<f, i>>})

(***************************************************************************)
(* C23.  As claimed: over any sequence of add_dbd calls and any include    *)
(* graph, every line of a file other than one named dbCommon.dbd is        *)
(* written to the output at most once, while dbCommon.dbd is never marked  *)
(* as added, so that every include of it expands it again.                 *)
(***************************************************************************)
C23_NoFileIncludedTwice ==
    /\ \A f \in DOMAIN dbdtree :
          f # dbCommon =>
              \A i \in 1..Len(dbdtree[f]) : TimesWritten(f, i) <= 1
    /\ \A k \in 1..Len(added_files) : target(added_files[k]) # dbCommon

=============================================================================
